---- MODULE Spec2Model ----
(***************************************************************************)
(* A model of the performance-monitoring toolkit: the PerformanceLogger,   *)
(* the PerformanceTrack method wrapper, the MemoryLeakService, the         *)
(* threshold classifier and the endpoints of PerformanceIssuesController,  *)
(* the async bottleneck simulators and the Fibonacci workloads.            *)
(*                                                                         *)
(* The components do not share state, so each is explored under its own    *)
(* specification (Spec, SpecTrack, ...) over the variables it owns; the    *)
(* variables of the other components stay at their initial values.         *)
(***************************************************************************)
EXTENDS Integers, Sequences, FiniteSets, TLC

VARIABLES
    now,          \* the wall clock read by Date.now(), in abstract ticks
    logs,         \* PerformanceLogger.logs
    retLogs,      \* the list the last getLogs call returned
    retAnalysis,  \* the counts the last analyzeLogs call returned
    lastOp,       \* the PerformanceLogger method called last
    trackLogs,    \* the logs of the PerformanceLogger a decorated method owns
    trackOptions, \* the options the PerformanceTrack decorator was applied with
    trackPc,      \* per wrapper call: idle, awaiting, resolved, rejected
    origOutcome,  \* per wrapper call: how the original method settled
    trackResult,  \* per wrapper call: what the wrapper's promise settled with
    leakyCache,   \* MemoryLeakService.leakyCache.size
    leakyArray,   \* MemoryLeakService.leakyArray.length
    closureLeak,  \* MemoryLeakService.closureLeak.length
    eventListenerLeaks, \* MemoryLeakService.eventListenerLeaks.length
    memCalls,     \* the last two calls made to the MemoryLeakService, newest first
    memAnalytics, \* what the last analyzeMemoryLeaks call returned
    response,     \* the envelope the last synchronous endpoint returned
    workload,     \* how the workload of that endpoint ended: returned or threw
    asyncReq,     \* per async-bottleneck request: its workload promise
    asyncResponse, \* per async-bottleneck request: the envelope returned
    measured,     \* the last measurement classified, with its envelope
    fibCall,      \* the last calculateFibonacci call, with its result
    concCall,     \* the createConcurrentAsyncBottleneck call and its promise
    concOps,      \* its operations, in creation order: timers and promises
    concOrder,    \* the operations in the order in which they settled
    detectResult, \* what the last detectBottlenecks call caught and returned
    cpuTask,      \* the last recursiveCpuAndMemoryIntensiveTask call
    chains,       \* the createPromiseChainBottleneck invocations
    reflectMetadata, \* the reflect-metadata store: what is defined per method
    retMetadata,  \* what the last getPerformanceTrackMetadata call returned
    defaultConfig, \* the exported DEFAULT_CONFIG object
    cfgCall,      \* the last createPerformanceConfig call, with its result
    disk,         \* the log directory as this logger writes it: day -> lines of that day's file
    leakedObjects, \* MemoryLeakAnalyzer: the length of its leakedObjects array
    leakOp,       \* the last MemoryLeakAnalyzer call
    leakIssue,    \* what the last detectLeaks returned
    detector,     \* PerformanceDetectorService: whether constructed, and config.thresholds
    profiled,     \* the last profileSystem call and the metrics it returned
    achain,       \* the AsyncBottleneckAnalyzer.createPromiseChainBottleneck call
    detection     \* the last detection call of an analyzer: what it returned and logged

loggerVars == <<logs, retLogs, retAnalysis, lastOp>>
trackVars == <<trackLogs, trackOptions, trackPc, origOutcome, trackResult>>
memVars == <<leakyCache, leakyArray, closureLeak, eventListenerLeaks, memCalls, memAnalytics>>
ctrlVars == <<response, workload, asyncReq, asyncResponse>>
pureVars == <<measured, fibCall>>
concVars == <<concCall, concOps, concOrder>>
errVars == <<detectResult, cpuTask>>
metaVars == <<reflectMetadata, retMetadata>>
cfgVars == <<defaultConfig, cfgCall>>
diskVars == <<disk>>
leakVars == <<leakedObjects, leakOp, leakIssue>>
detVars == <<detector, profiled>>
lastVars == <<detVars, achain, detection>>
otherVars == <<chains, metaVars, cfgVars, diskVars, leakVars, lastVars>>
vars == <<now, loggerVars, trackVars, memVars, ctrlVars, pureVars, concVars, errVars, otherVars>>

(***************************************************************************)
(* Bounds of the exploration.                                              *)
(***************************************************************************)
MaxTime == 2
MaxLogs == 3
MsPerDay == 2
MaxLeakedObjects == 1002
NumCalls == 2
NumRequests == 1
MaxStackDepth == 12
MantissaBits == 6
MaxCollisions == 2
MaxOperations == 2
MaxDelay == 2
NumChains == 2
MaxChainLength == 2
MaxFib == 20
MinFib == 12

None == "undefined"
\* an option of type number that is left undefined
NoNumber == -1

Min(a, b) == IF a < b THEN a ELSE b
Max(a, b) == IF a < b THEN b ELSE a

RECURSIVE SelectSeqR(_, _)
Last(s) == s[Len(s)]

IsPrefix(s, t) ==
    /\ Len(s) <= Len(t)
    /\ \A i \in 1..Len(s) : s[i] = t[i]

(***************************************************************************)
(* The clock.  Date.now() never runs backwards in the model and two reads  *)
(* may return the same value.                                              *)
(***************************************************************************)
Tick ==
    /\ now < MaxTime
    /\ now' = now + 1
    /\ UNCHANGED <<loggerVars, trackVars, memVars, ctrlVars, pureVars, concVars, errVars, otherVars>>

(***************************************************************************)
(* PerformanceSeverity and the records the logger stores.                  *)
(***************************************************************************)
LOW == "low"
MEDIUM == "medium"
HIGH == "high"
CRITICAL == "critical"
PerformanceSeverity == {LOW, MEDIUM, HIGH, CRITICAL}

\* PerformanceMetricsInterface, reduced to the fields the toolkit computes
\* from a measurement (the host's core count and memory totals are left out).
Metrics(latency, processMemory, totalRequests, failedRequests) ==
    [ latency |-> latency,
      processMemory |-> processMemory,
      totalRequests |-> totalRequests,
      failedRequests |-> failedRequests ]

\* PerformanceIssueInterface
Issue(id, type, severity, metrics, stackTrace) ==
    [ id |-> id,
      type |-> type,
      severity |-> severity,
      metrics |-> metrics,
      stackTrace |-> stackTrace ]

LogEntry(type, data, timestamp) ==
    [ type |-> type, data |-> data, timestamp |-> timestamp ]

(***************************************************************************)
(* PerformanceLogger                                                       *)
(***************************************************************************)
\* this.logs.push(logEntry) of logMetrics
PushMetricsBuggy(l, metrics, t) == <<LogEntry("metric", metrics, t)>> \o l
PushMetrics(l, metrics, t) == Append(l, LogEntry("metric", metrics, t))

\* this.logs.push(logEntry) of logIssue
PushIssue(l, issue, t) == Append(l, LogEntry("issue", issue, t))

\* no analyzeLogs result
NoAnalysis == [totalLogs |-> 0, metrics |-> 0, issues |-> 0, criticalIssues |-> 0]

\* The metrics and issues a caller hands to the logger directly.
SampleMetrics == { Metrics(0, 0, 1, 0) }
SampleIssues ==
    { Issue(<<"sample", 0>>, "custom", s, Metrics(0, 0, 0, 0), None) :
        s \in {LOW, CRITICAL} }

\* The log files.  A day has MsPerDay clock units; the file of a day is named
\* by the date part of an ISO timestamp, here the day's number.
Days == 0..(MaxTime \div MsPerDay)
IsoDate(t) == t \div MsPerDay
LogFileName(t) == IsoDate(t)

\* the number of lines in all the files
RECURSIVE DiskLines(_, _)
DiskLines(files, d) ==
    IF d \notin DOMAIN files THEN 0 ELSE Len(files[d]) + DiskLines(files, d + 1)

\* JSON.stringify(logEntry) + '\n': one line; a property whose value is
\* undefined is left out of the text.
JsonLine(logEntry) ==
    [logEntry EXCEPT !.data =
        IF "stackTrace" \in DOMAIN logEntry.data /\ logEntry.data.stackTrace = None
        THEN [k \in DOMAIN logEntry.data \ {"stackTrace"} |-> logEntry.data[k]]
        ELSE logEntry.data]

\* The file named by the entry's timestamp instead of by the clock at the write.
WriteLogToDiskByTimestamp(files, logEntry, writeTime, appended) ==
    IF appended
    THEN [files EXCEPT ![LogFileName(logEntry.timestamp)] = Append(@, JsonLine(logEntry))]
    ELSE files

\* writeLogToDisk(logEntry): the file is named by new Date() at the write;
\* appendFileSync appends the line, or throws and the catch only reports it.
WriteLogToDisk(files, logEntry, writeTime, appended) ==
    IF appended
    THEN [files EXCEPT ![LogFileName(writeTime)] = Append(@, JsonLine(logEntry))]
    ELSE files

\* The clock between Date.now() of the entry and new Date() of the write.
WriteDelays == {0, 1}

\* logMetrics(metrics): the entry is stamped with Date.now(), pushed, and
\* written elapsed clock units later.
logMetrics(metrics, elapsed, appended) ==
    /\ Len(logs) < MaxLogs
    /\ DiskLines(disk, 0) < MaxLogs
    /\ now + elapsed <= MaxTime
    /\ logs' = PushMetrics(logs, metrics, now)
    /\ now' = now + elapsed
    /\ disk' = WriteLogToDisk(disk, LogEntry("metric", metrics, now), now + elapsed, appended)
    /\ retLogs' = <<>>
    /\ retAnalysis' = NoAnalysis
    /\ lastOp' = "logMetrics"
    /\ UNCHANGED <<trackVars, memVars, ctrlVars, pureVars, concVars, errVars, chains, metaVars, cfgVars, leakVars, lastVars>>

logIssue(issue, elapsed, appended) ==
    /\ Len(logs) < MaxLogs
    /\ DiskLines(disk, 0) < MaxLogs
    /\ now + elapsed <= MaxTime
    /\ logs' = PushIssue(logs, issue, now)
    /\ now' = now + elapsed
    /\ disk' = WriteLogToDisk(disk, LogEntry("issue", issue, now), now + elapsed, appended)
    /\ retLogs' = <<>>
    /\ retAnalysis' = NoAnalysis
    /\ lastOp' = "logIssue"
    /\ UNCHANGED <<trackVars, memVars, ctrlVars, pureVars, concVars, errVars, chains, metaVars, cfgVars, leakVars, lastVars>>

\* The filter of getLogs.  An option that is undefined, and a startTime or
\* endTime of 0 (falsy), filters nothing.
Truthy(x) == x # None
TruthyNumber(x) == x # NoNumber /\ x # 0

KeepLog(log, options) ==
    /\ ~(Truthy(options.type) /\ log.type # options.type)
    /\ ~(TruthyNumber(options.startTime) /\ log.timestamp < options.startTime)
    /\ ~(TruthyNumber(options.endTime) /\ log.timestamp > options.endTime)

SelectSeqR(s, options) ==
    IF s = <<>> THEN <<>>
    ELSE IF KeepLog(Head(s), options)
         THEN <<Head(s)>> \o SelectSeqR(Tail(s), options)
         ELSE SelectSeqR(Tail(s), options)

LogOptions ==
    [ type : {None, "metric", "issue", "log"},
      startTime : {NoNumber} \cup (0..MaxTime),
      endTime : {NoNumber} \cup (0..MaxTime) ]

getLogs(options) ==
    /\ retLogs' = SelectSeqR(logs, options)
    /\ retAnalysis' = NoAnalysis
    /\ lastOp' = "getLogs"
    /\ UNCHANGED <<now, logs, trackVars, memVars, ctrlVars, pureVars, concVars, errVars, otherVars>>

IsMetric(log) == log.type = "metric"
IsIssue(log) == log.type = "issue"
\* a filter that leaves the severity out
IsCriticalIssueAnySeverity(log) == log.type = "issue"
IsCriticalIssue(log) == log.type = "issue" /\ log.data.severity = CRITICAL

Analysis(l) ==
    [ totalLogs |-> Len(l),
      metrics |-> Cardinality({ i \in 1..Len(l) : IsMetric(l[i]) }),
      issues |-> Cardinality({ i \in 1..Len(l) : IsIssue(l[i]) }),
      criticalIssues |-> Cardinality({ i \in 1..Len(l) : IsCriticalIssue(l[i]) }) ]

analyzeLogs ==
    /\ retLogs' = <<>>
    /\ retAnalysis' = Analysis(logs)
    /\ lastOp' = "analyzeLogs"
    /\ UNCHANGED <<now, logs, trackVars, memVars, ctrlVars, pureVars, concVars, errVars, otherVars>>

\* clearLogs(clearDiskLogs): the in-memory list is replaced by an empty one
\* whatever the flag.
clearLogs(clearDiskLogs, unlinked) ==
    /\ logs' = <<>>
    /\ retLogs' = <<>>
    /\ retAnalysis' = NoAnalysis
    /\ lastOp' = "clearLogs"
    /\ IF clearDiskLogs
       THEN disk' = [d \in Days |-> IF d \in unlinked THEN <<>> ELSE disk[d]]
       ELSE unlinked = {} /\ disk' = disk
    /\ UNCHANGED <<now, trackVars, memVars, ctrlVars, pureVars, concVars, errVars, chains, metaVars, cfgVars, leakVars, lastVars>>

LoggerInit ==
    /\ logs = <<>>
    /\ retLogs = <<>>
    /\ retAnalysis = NoAnalysis
    /\ lastOp = None

\* no log file yet
DiskInit == disk = [d \in Days |-> <<>>]

(***************************************************************************)
(* PerformanceTrack: the wrapper that replaces a decorated method.  Each   *)
(* decorated method has a PerformanceLogger of its own, which only the     *)
(* wrapper writes to.  A call runs up to the await of the original method  *)
(* (TrackCall) and, once that has settled, to its own return or throw in   *)
(* one synchronous run (TrackResolve, TrackReject).                        *)
(***************************************************************************)
Calls == 1..NumCalls

\* a promise that has not settled
NoOutcome == [state |-> "pending"]
Resolved(value) == [state |-> "resolved", value |-> value]
Rejected(reason) == [state |-> "rejected", value |-> reason]

\* What the original method may return.
ReturnValues == {"value-a", "value-b"}

\* What the original method may throw: an Error, a string, any other value.
ErrorValue(message, stack) == [kind |-> "Error", message |-> message, stack |-> stack]
ThrownValues ==
    { ErrorValue("boom", "stack:original-method"),
      [kind |-> "string", message |-> "oops", stack |-> None],
      [kind |-> "other", message |-> None, stack |-> None] }

DefaultExecutionTimeThreshold == 1000
DefaultMemoryThreshold == 100 * 1024 * 1024

TrackOptionSets ==
    { [executionTimeThreshold |-> NoNumber, memoryThreshold |-> NoNumber],
      [executionTimeThreshold |-> 2, memoryThreshold |-> 5] }

\* const { executionTimeThreshold = 1000, memoryThreshold = 100MB } = options
ExecutionTimeThreshold(options) ==
    IF options.executionTimeThreshold = NoNumber
    THEN DefaultExecutionTimeThreshold
    ELSE options.executionTimeThreshold

MemoryThreshold(options) ==
    IF options.memoryThreshold = NoNumber
    THEN DefaultMemoryThreshold
    ELSE options.memoryThreshold

\* The measurements tried: on either side of each threshold.
ExecutionTimes(options) ==
    LET t == ExecutionTimeThreshold(options)
    IN  {0, t, t + 1, 2 * t, 2 * t + 1}

MemoryDeltas(options) ==
    LET m == MemoryThreshold(options)
    IN  {-1, m, m + 1}

\* before the decorator is applied there is no wrapper to call
NoOptions == [executionTimeThreshold |-> NoNumber, memoryThreshold |-> NoNumber]

TrackInit ==
    /\ trackLogs = <<>>
    /\ trackOptions = NoOptions
    /\ trackPc = [c \in Calls |-> "undecorated"]
    /\ origOutcome = [c \in Calls |-> NoOutcome]
    /\ trackResult = [c \in Calls |-> NoOutcome]

\* PerformanceTrack(options) applied to a method: the wrapper replaces it and
\* a PerformanceLogger is made for it.
PerformanceTrack(options) ==
    /\ \A c \in Calls : trackPc[c] = "undecorated"
    /\ trackOptions' = options
    /\ trackPc' = [c \in Calls |-> "idle"]
    /\ trackLogs' = <<>>
    /\ UNCHANGED <<now, loggerVars, origOutcome, trackResult, memVars, ctrlVars, pureVars, concVars, errVars, otherVars>>

\* The wrapper up to "await originalMethod.apply(this, args)".
TrackCall(c) ==
    /\ trackPc[c] = "idle"
    /\ trackPc' = [trackPc EXCEPT ![c] = "awaiting"]
    /\ UNCHANGED <<now, loggerVars, trackLogs, trackOptions, origOutcome, trackResult, memVars, ctrlVars, pureVars, concVars, errVars, otherVars>>

TrackExceeds(options, executionTime, memoryUsed) ==
    \/ executionTime > ExecutionTimeThreshold(options)
    \/ memoryUsed > MemoryThreshold(options)

\* critical from twice the threshold on instead of above it
TrackSeverityInclusive(options, executionTime) ==
    IF executionTime >= ExecutionTimeThreshold(options) * 2 THEN CRITICAL ELSE HIGH

TrackSeverity(options, executionTime) ==
    IF executionTime > ExecutionTimeThreshold(options) * 2 THEN CRITICAL ELSE HIGH

TrackIssue(options, metrics, t) ==
    Issue(<<"performance-issue", t>>, "cpu_bottleneck",
          TrackSeverity(options, metrics.latency), metrics,
          "stack:PerformanceTrack")

\* The try branch after the await: the metric entry, then the issue entry if
\* a threshold is exceeded.
TrackLogSuccess(l, options, executionTime, memoryUsed, t) ==
    LET metrics == Metrics(executionTime, memoryUsed, 1, 0)
        logged == PushMetrics(l, metrics, t)
    IN  IF TrackExceeds(options, executionTime, memoryUsed)
        THEN PushIssue(logged, TrackIssue(options, metrics, t), t)
        ELSE logged

TrackResolve(c, value, executionTime, memoryUsed) ==
    /\ trackPc[c] = "awaiting"
    /\ Len(trackLogs) + 2 <= MaxLogs
    /\ origOutcome' = [origOutcome EXCEPT ![c] = Resolved(value)]
    /\ trackLogs' = TrackLogSuccess(trackLogs, trackOptions, executionTime, memoryUsed, now)
    /\ trackResult' = [trackResult EXCEPT ![c] = Resolved(value)]
    /\ trackPc' = [trackPc EXCEPT ![c] = "resolved"]
    /\ UNCHANGED <<now, loggerVars, trackOptions, memVars, ctrlVars, pureVars, concVars, errVars, otherVars>>

\* error instanceof Error ? error : new Error(typeof error === 'string' ? error : 'Unknown error')
ToErrorObjWrapped(error) ==
    ErrorValue(IF error.kind = "string" THEN error.message ELSE "Unknown error",
               "stack:PerformanceTrack")
ToErrorObj(error) ==
    IF error.kind = "Error" THEN error
    ELSE ErrorValue(IF error.kind = "string" THEN error.message ELSE "Unknown error",
                    "stack:PerformanceTrack")

TrackErrorSeverityHigh == HIGH
TrackErrorSeverity == CRITICAL

TrackErrorIssue(errorObj, t) ==
    Issue(<<"performance-error", t>>, "custom", TrackErrorSeverity,
          Metrics(0, 0, 1, 1), errorObj.stack)

\* The catch branch: one issue entry, then "throw errorObj".
TrackLogError(l, error, t) == PushIssue(l, TrackErrorIssue(ToErrorObj(error), t), t)

TrackReject(c, error) ==
    /\ trackPc[c] = "awaiting"
    /\ Len(trackLogs) + 1 <= MaxLogs
    /\ origOutcome' = [origOutcome EXCEPT ![c] = Rejected(error)]
    /\ trackLogs' = TrackLogError(trackLogs, error, now)
    /\ trackResult' = [trackResult EXCEPT ![c] = Rejected(ToErrorObj(error))]
    /\ trackPc' = [trackPc EXCEPT ![c] = "rejected"]
    /\ UNCHANGED <<now, loggerVars, trackOptions, memVars, ctrlVars, pureVars, concVars, errVars, otherVars>>

(***************************************************************************)
(* MemoryLeakService.  The objects the four stores hold are junk that is   *)
(* never read again; the service only ever takes the size of a store, so   *)
(* each store is modelled by the number of objects it holds.  The keys of  *)
(* the cache are random strings, so two iterations of the cache loop may   *)
(* draw the same key and the second set() then replaces an entry instead   *)
(* of adding one.                                                          *)
(***************************************************************************)
LeakCounts == {0, 1, 125, 126, 250, 251}

\* The numbers of distinct new keys count draws may produce, with at most
\* MaxCollisions draws of a key already present.
KeyDraws(count) ==
    IF count > 0
    THEN { count - c : c \in 0..Min(MaxCollisions, count - 1) }
    ELSE {0}

Stores(cache, array, closures, listeners) ==
    [ leakyCache |-> cache,
      leakyArray |-> array,
      closureLeak |-> closures,
      eventListenerLeaks |-> listeners ]

CurrentStores == Stores(leakyCache, leakyArray, closureLeak, eventListenerLeaks)

\* resetLeaks
ResetLeaksKeepClosures(st) == Stores(0, 0, st.closureLeak, 0)
ResetLeaks(st) == Stores(0, 0, 0, 0)

\* createCacheMemoryLeak: this.leakyCache.set(key, largeObject), count times
CreateCacheMemoryLeak(st, newKeys) ==
    [st EXCEPT !.leakyCache = @ + newKeys]

\* the loop with "i <= count"
PushesInclusive(count) == IF count >= 0 THEN count + 1 ELSE 0

\* a loop "for (let i = 0; i < count; i++)" that pushes once per iteration
Pushes(count) == IF count > 0 THEN count ELSE 0

\* createArrayMemoryLeak
CreateArrayMemoryLeak(st, count) ==
    [st EXCEPT !.leakyArray = @ + Pushes(count)]

\* createClosureLeak
CreateClosureLeak(st, count) ==
    [st EXCEPT !.closureLeak = @ + Pushes(count)]

\* createEventListenerLeak
CreateEventListenerLeak(st, count) ==
    [st EXCEPT !.eventListenerLeaks = @ + Pushes(count)]

\* generateMemoryLeaks without the resetLeaks at its start
GenerateMemoryLeaksAccumulating(st, count, keys) ==
    CreateEventListenerLeak(
        CreateClosureLeak(
            CreateArrayMemoryLeak(
                CreateCacheMemoryLeak(st, keys), count), count), count)

\* generateMemoryLeaks(count), with the keys its cache loop draws
GenerateMemoryLeaks(st, count, keys) ==
    CreateEventListenerLeak(
        CreateClosureLeak(
            CreateArrayMemoryLeak(
                CreateCacheMemoryLeak(ResetLeaks(st), keys), count), count), count)

\* getLeakStatistics
GetLeakStatistics(st) ==
    [ cacheSizeCount |-> st.leakyCache,
      arraySize |-> st.leakyArray,
      closureLeakCount |-> st.closureLeak,
      eventListenerLeakCount |-> st.eventListenerLeaks ]

LeakImpact(severity) ==
    CASE severity = "high" -> "Severe memory consumption, potential application crash"
      [] severity = "medium" -> "Gradual memory growth, potential performance degradation"
      [] OTHER -> "Minimal memory impact, within acceptable limits"

LeakActions(severity) ==
    CASE severity = "high" -> "Immediate memory leak investigation"
      [] severity = "medium" -> "Review memory allocation patterns"
      [] OTHER -> "Continue monitoring memory usage"

\* 'high' from 1000 on instead of above 1000
LeakSeverityInclusive(totalLeakedObjects) ==
    IF totalLeakedObjects >= 1000 THEN "high"
    ELSE IF totalLeakedObjects > 500 THEN "medium"
    ELSE "low"

LeakSeverity(totalLeakedObjects) ==
    IF totalLeakedObjects > 1000 THEN "high"
    ELSE IF totalLeakedObjects > 500 THEN "medium"
    ELSE "low"

TotalLeakedObjectsNoListeners(leakStats) ==
    leakStats.cacheSizeCount + leakStats.arraySize + leakStats.closureLeakCount
TotalLeakedObjects(leakStats) ==
    leakStats.cacheSizeCount + leakStats.arraySize
        + leakStats.closureLeakCount + leakStats.eventListenerLeakCount

\* analyzeMemoryLeaks; recommendedActions is represented by its first line
AnalyzeMemoryLeaks(st) ==
    LET leakStats == GetLeakStatistics(st)
        totalLeakedObjects == TotalLeakedObjects(leakStats)
        severity == LeakSeverity(totalLeakedObjects)
    IN  [ leakedObjectCount |-> totalLeakedObjects,
          severity |-> severity,
          leakDetails |-> leakStats,
          potentialImpact |-> LeakImpact(severity),
          recommendedActions |-> LeakActions(severity) ]

NoAnalytics ==
    [ leakedObjectCount |-> -1,
      severity |-> None,
      leakDetails |-> [cacheSizeCount |-> 0, arraySize |-> 0,
                       closureLeakCount |-> 0, eventListenerLeakCount |-> 0],
      potentialImpact |-> None,
      recommendedActions |-> None ]

MemCall(op, count) == [op |-> op, count |-> count]
NoCall == MemCall(None, 0)

SetStores(st) ==
    /\ leakyCache' = st.leakyCache
    /\ leakyArray' = st.leakyArray
    /\ closureLeak' = st.closureLeak
    /\ eventListenerLeaks' = st.eventListenerLeaks

generateMemoryLeaks(count, keys) ==
    /\ SetStores(GenerateMemoryLeaks(CurrentStores, count, keys))
    /\ memCalls' = <<MemCall("generateMemoryLeaks", count), memCalls[1]>>
    /\ memAnalytics' = NoAnalytics
    /\ UNCHANGED <<now, loggerVars, trackVars, ctrlVars, pureVars, concVars, errVars, otherVars>>

analyzeMemoryLeaks ==
    /\ memAnalytics' = AnalyzeMemoryLeaks(CurrentStores)
    /\ memCalls' = <<MemCall("analyzeMemoryLeaks", 0), memCalls[1]>>
    /\ UNCHANGED <<leakyCache, leakyArray, closureLeak, eventListenerLeaks>>
    /\ UNCHANGED <<now, loggerVars, trackVars, ctrlVars, pureVars, concVars, errVars, otherVars>>

attemptMemoryCleanup ==
    /\ SetStores(ResetLeaks(CurrentStores))
    /\ memCalls' = <<MemCall("attemptMemoryCleanup", 0), memCalls[1]>>
    /\ memAnalytics' = NoAnalytics
    /\ UNCHANGED <<now, loggerVars, trackVars, ctrlVars, pureVars, concVars, errVars, otherVars>>

MemInit ==
    /\ leakyCache = 0
    /\ leakyArray = 0
    /\ closureLeak = 0
    /\ eventListenerLeaks = 0
    /\ memCalls = <<NoCall, NoCall>>
    /\ memAnalytics = NoAnalytics

(***************************************************************************)
(* The workloads of CpuIntensiveService (cpu-intensive.service.ts).        *)
(***************************************************************************)
RECURSIVE RoundToUnit(_, _)
\* x >= 0 rounded to the nearest number with a MantissaBits-bit significand,
\* ties to the even significand, as an IEEE-754 operation rounds its result
RoundToUnit(x, unit) ==
    IF x < (2 ^ MantissaBits) * unit
    THEN LET q == x \div unit
             r == x % unit
         IN  IF 2 * r < unit THEN q * unit
             ELSE IF 2 * r > unit THEN (q + 1) * unit
             ELSE (IF q % 2 = 0 THEN q ELSE q + 1) * unit
    ELSE RoundToUnit(x, 2 * unit)

\* the "+" of two non-negative numbers
NumberAdd(a, b) == RoundToUnit(a + b, 1)

RECURSIVE CalculateFibonacciLateBase(_)
CalculateFibonacciLateBase(n) ==
    IF n <= 2 THEN n
    ELSE NumberAdd(CalculateFibonacciLateBase(n - 1), CalculateFibonacciLateBase(n - 2))

RECURSIVE CalculateFibonacci(_)
\* calculateFibonacci, the naive recursion
CalculateFibonacci(n) ==
    IF n <= 1 THEN n
    ELSE NumberAdd(CalculateFibonacci(n - 1), CalculateFibonacci(n - 2))

RECURSIVE CalculateFibonacciMemoized(_, _)
\* calculateFibonacci(n, memo) of the memoized service: the result and the
\* memo map as the call leaves it
CalculateFibonacciMemoized(n, memo) ==
    IF n <= 1 THEN [value |-> n, memo |-> memo]
    ELSE IF n \in DOMAIN memo THEN [value |-> memo[n], memo |-> memo]
    ELSE LET first == CalculateFibonacciMemoized(n - 1, memo)
             second == CalculateFibonacciMemoized(n - 2, first.memo)
             result == NumberAdd(first.value, second.value)
         IN  [value |-> result, memo |-> (n :> result) @@ second.memo]

\* "memo: Map<number, number> = new Map()"
EmptyMemo == [k \in {} |-> 0]

RECURSIVE CalculateFibonacciAnalyzer(_)
\* CpuPerformanceAnalyzer.calculateFibonacci
CalculateFibonacciAnalyzer(n) ==
    IF n <= 1 THEN n
    ELSE NumberAdd(CalculateFibonacciAnalyzer(n - 1), CalculateFibonacciAnalyzer(n - 2))

\* The recursion for n is n frames deep (n, n-1, ..., 1); a recursion deeper
\* than the engine's stack throws a RangeError.
FibonacciOverflows(n) == n > MaxStackDepth

RangeError == ErrorValue("Maximum call stack size exceeded", "stack:calculateFibonacci")

(***************************************************************************)
(* PerformanceIssuesController                                             *)
(***************************************************************************)
Requests == 1..NumRequests

Returned(value) == [kind |-> "returned", value |-> value, error |-> RangeError]
Threw(error) == [kind |-> "threw", value |-> [kind |-> "null"], error |-> error]

\* the values of the envelope's details field
NullDetails == [kind |-> "null"]
ValueDetails(v) == [kind |-> "value", value |-> v]
PromiseDetails(r) == [kind |-> "promise", request |-> r]

NoErrorDetails == [present |-> FALSE, message |-> None, stack |-> None, errorType |-> None]

\* errorDetails of the catch branch
ErrorDetails(error) ==
    [ present |-> TRUE,
      message |-> IF error.kind = "Error" THEN error.message ELSE "String(error)",
      stack |-> IF error.kind = "Error" THEN error.stack ELSE None,
      errorType |-> IF error.kind = "Error" THEN "Error" ELSE "UnknownError" ]

HighExecutionTime == 5000
MediumExecutionTime == 2000
HighMemoryUsed == 100 * 1024 * 1024
MediumMemoryUsed == 50 * 1024 * 1024

\* "Determine severity based on performance"
ClassifySeverityInclusive(executionTime, memoryUsed) ==
    IF executionTime >= HighExecutionTime \/ memoryUsed >= HighMemoryUsed THEN "high"
    ELSE IF executionTime >= MediumExecutionTime \/ memoryUsed >= MediumMemoryUsed THEN "medium"
    ELSE "low"
ClassifySeverity(executionTime, memoryUsed) ==
    IF executionTime > HighExecutionTime \/ memoryUsed > HighMemoryUsed THEN "high"
    ELSE IF executionTime > MediumExecutionTime \/ memoryUsed > MediumMemoryUsed THEN "medium"
    ELSE "low"

\* getPotentialImpact of the controller
PotentialImpact(severity) ==
    CASE severity = "high" -> "Severe performance degradation, potential system instability"
      [] severity = "medium" -> "Noticeable performance slowdown, may impact user experience"
      [] OTHER -> "Minimal performance impact, within acceptable limits"

\* the heap in use when a measurement starts
HeapAtStart == 2 * HighMemoryUsed

Envelope(problemDetected, severity, executionTime, memoryUsed, peak, details, impact, errorDetails) ==
    [ problemDetected |-> problemDetected,
      severity |-> severity,
      metrics |-> [ executionTime |-> executionTime,
                    memoryUsed |-> memoryUsed,
                    peakMemoryUsage |-> peak ],
      details |-> details,
      potentialImpact |-> impact,
      errorDetails |-> errorDetails ]

NoResponse ==
    Envelope(FALSE, None, 0, 0, 0, NullDetails, None, NoErrorDetails)

\* measurePerformance(fn, label): outcome is how the call fn() ended, details
\* what it returned; executionTime and memoryUsed are what the two snapshots
\* around that call measured.
MeasurePerformance(outcome, details, executionTime, memoryUsed) ==
    IF outcome.kind = "returned"
    THEN LET severity == ClassifySeverity(executionTime, memoryUsed)
             endHeap == HeapAtStart + memoryUsed
         IN  Envelope(severity # "low", severity, executionTime, endHeap,
                      Max(HeapAtStart, endHeap), details,
                      PotentialImpact(severity), NoErrorDetails)
    ELSE Envelope(TRUE, "high", 0, 0, 0, NullDetails,
                  "Critical failure in performance test", ErrorDetails(outcome.error))

\* The measurements the endpoints are tried with: one of each severity.
MeasuredTimes == {0, HighExecutionTime + 1}
MeasuredMemory == {-1, MediumMemoryUsed + 1}

\* GET memory-leak
triggerMemoryLeak(count, keys, executionTime, memoryUsed) ==
    LET st == GenerateMemoryLeaks(CurrentStores, count, keys)
        analytics == AnalyzeMemoryLeaks(st)
    IN  /\ SetStores(st)
        /\ memCalls' = <<MemCall("analyzeMemoryLeaks", 0), MemCall("generateMemoryLeaks", count)>>
        /\ memAnalytics' = analytics
        /\ response' = MeasurePerformance(Returned("analytics"), ValueDetails(analytics),
                                          executionTime, memoryUsed)
        /\ workload' = "returned"
        /\ UNCHANGED <<now, loggerVars, trackVars, asyncReq, asyncResponse, pureVars, concVars, errVars, otherVars>>

\* GET cpu-intensive: the workload throws when the Fibonacci recursion
\* overflows the stack.
CpuWorkload(complexity) ==
    IF FibonacciOverflows(complexity) THEN Threw(RangeError)
    ELSE Returned(CalculateFibonacci(complexity))

Complexities == {0, 1, MaxStackDepth, MaxStackDepth + 1}

triggerCpuIntensiveTask(complexity, executionTime, memoryUsed) ==
    LET outcome == CpuWorkload(complexity)
    IN  /\ response' = MeasurePerformance(outcome, ValueDetails(outcome.value),
                                          executionTime, memoryUsed)
        /\ workload' = outcome.kind
        /\ UNCHANGED <<now, loggerVars, trackVars, memVars, asyncReq, asyncResponse, pureVars, concVars, errVars, otherVars>>

\* POST cleanup
performCleanup ==
    /\ SetStores(ResetLeaks(CurrentStores))
    /\ memCalls' = <<MemCall("attemptMemoryCleanup", 0), memCalls[1]>>
    /\ memAnalytics' = NoAnalytics
    /\ UNCHANGED <<now, loggerVars, trackVars, ctrlVars, pureVars, concVars, errVars, otherVars>>

(***************************************************************************)
(* GET async-bottleneck.  The async arrow function handed to               *)
(* measurePerformance runs up to its first await and returns its promise;  *)
(* measurePerformance takes that promise for the result.  The four awaited *)
(* operations then run one after another in later turns of the event loop. *)
(***************************************************************************)
AsyncOperations ==
    << "createConcurrentAsyncBottleneck", "createPromiseChainBottleneck",
       "simulateSlowDatabaseOperations", "createMemoryIntensiveAsyncOperation" >>

\* simulateAsyncOperation(delay, shouldFail): a timer at 2*delay rejects, a
\* timer at delay clears it and rejects or resolves.  timeoutFirst: the
\* event loop ran the timer of 2*delay before the timer of delay.
SimulateAsyncOperation(shouldFail, timeoutFirst) ==
    IF timeoutFirst THEN Rejected("Operation timed out")
    ELSE IF shouldFail THEN Rejected("Simulated operation failure")
    ELSE Resolved("Async operation completed")

\* How an awaited operation of the workload settles.  The concurrent fan-out
\* catches each failure of its operations; the other three await
\* simulateAsyncOperation bare, so a timeout rejects them.
AsyncOperationOutcome(k, timeoutFirst) ==
    IF AsyncOperations[k] = "createConcurrentAsyncBottleneck"
    THEN Resolved("results")
    ELSE SimulateAsyncOperation(FALSE, timeoutFirst)

\* completed: how many of the four operations have resolved; measuredAt: how
\* many had resolved when the 'after' snapshot was taken.
AsyncRequest(state, completed, measuredAt) ==
    [state |-> state, completed |-> completed, measuredAt |-> measuredAt]

triggerAsyncBottleneck(r, executionTime, memoryUsed) ==
    /\ asyncReq[r].state = "idle"
    /\ asyncReq' = [asyncReq EXCEPT ![r] = AsyncRequest("pending", 0, 0)]
    /\ asyncResponse' = [asyncResponse EXCEPT ![r] =
            MeasurePerformance(Returned("promise"), PromiseDetails(r),
                               executionTime, memoryUsed)]
    /\ UNCHANGED <<now, loggerVars, trackVars, memVars, response, workload, pureVars, concVars, errVars, otherVars>>

\* The operation the workload of request r awaits settles.
AsyncOperationSettles(r, timeoutFirst) ==
    /\ asyncReq[r].state = "pending"
    /\ LET k == asyncReq[r].completed + 1
           outcome == AsyncOperationOutcome(k, timeoutFirst)
       IN  asyncReq' = [asyncReq EXCEPT ![r] =
              IF outcome.state = "rejected"
              THEN AsyncRequest("rejected", @.completed, @.measuredAt)
              ELSE AsyncRequest(IF k = Len(AsyncOperations) THEN "resolved" ELSE "pending",
                                k, @.measuredAt)]
    /\ UNCHANGED <<now, loggerVars, trackVars, memVars, response, workload, asyncResponse, pureVars, concVars, errVars, otherVars>>

CtrlInit ==
    /\ response = NoResponse
    /\ workload = None
    /\ asyncReq = [r \in Requests |-> AsyncRequest("idle", 0, 0)]
    /\ asyncResponse = [r \in Requests |-> NoResponse]

(***************************************************************************)
(* createConcurrentAsyncBottleneck: the fan-out of AsyncBottleneckService  *)
(* (operations that may fail or time out, each with a catch) and the one   *)
(* of AsyncBottleneckAnalyzer (operations that resolve with their index,   *)
(* followed by the bottleneck check).  Timers fire one at a time, in any   *)
(* order once they are due; timers of one duration fire in the order in    *)
(* which they were created.                                                *)
(***************************************************************************)
OperationValue(op, text) == [op |-> op, text |-> text]

\* one operation: the timer at delay, the timer at 2*delay (the analyzer's
\* operations have none), the promise of the operation and the promise the
\* fan-out puts in its array
ConcOp(delay, shouldFail, timeoutTimer) ==
    [ delay |-> delay, shouldFail |-> shouldFail,
      timer |-> "armed", timeoutTimer |-> timeoutTimer,
      promise |-> NoOutcome, slot |-> NoOutcome ]

ConcCall(variant, operationCount, maxDelay, startTime, result) ==
    [ variant |-> variant, operationCount |-> operationCount, maxDelay |-> maxDelay,
      startTime |-> startTime, result |-> result ]

\* how operation i of the service settles, tagged with the operation
OperationOutcome(i, shouldFail, timeoutFirst) ==
    LET outcome == SimulateAsyncOperation(shouldFail, timeoutFirst)
    IN  [state |-> outcome.state, value |-> OperationValue(i, <<outcome.value>>)]

\* .catch(error => `Operation failed: ${error.message}`)
CatchOperationFailure(promise) ==
    IF promise.state = "rejected"
    THEN Resolved(OperationValue(promise.value.op,
                                 <<"Operation failed: ">> \o promise.value.text))
    ELSE promise

\* The array filled in the order in which the promises settled.
PromiseAllInSettlingOrder(promises) ==
    IF \E i \in DOMAIN promises : promises[i].state = "rejected"
    THEN Rejected((CHOOSE i \in DOMAIN promises : promises[i].state = "rejected"))
    ELSE IF \A i \in DOMAIN promises : promises[i].state = "resolved"
    THEN Resolved([k \in DOMAIN promises |-> promises[concOrder'[k]].value])
    ELSE NoOutcome

\* Promise.all: rejects once a promise has rejected, resolves once all have
\* resolved, with their values by position
PromiseAll(promises) ==
    IF \E i \in DOMAIN promises : promises[i].state = "rejected"
    THEN Rejected((CHOOSE i \in DOMAIN promises : promises[i].state = "rejected"))
    ELSE IF \A i \in DOMAIN promises : promises[i].state = "resolved"
    THEN Resolved([k \in DOMAIN promises |-> promises[k].value])
    ELSE NoOutcome

Slots(ops) == [i \in DOMAIN ops |-> ops[i].slot]

OperationCounts == 0..MaxOperations
OperationDelays(maxDelay) == 0..(maxDelay - 1)

\* AsyncBottleneckService.createConcurrentAsyncBottleneck, up to its return
createConcurrentAsyncBottleneck(operationCount, maxDelay, delays, fails) ==
    /\ concCall.result.state = "idle"
    /\ concOps' = [i \in 1..operationCount |-> ConcOp(delays[i], fails[i], "armed")]
    /\ concOrder' = <<>>
    /\ concCall' = ConcCall("service", operationCount, maxDelay, now,
                            PromiseAll(Slots(concOps')))
    /\ UNCHANGED <<now, loggerVars, trackVars, memVars, ctrlVars, pureVars, errVars, otherVars>>

\* AsyncBottleneckAnalyzer.createConcurrentAsyncBottleneck, up to its await
analyzerCreateConcurrentAsyncBottleneck(operationCount, maxDelay, delays) ==
    /\ concCall.result.state = "idle"
    /\ concOps' = [i \in 1..operationCount |-> ConcOp(delays[i], FALSE, "none")]
    /\ concOrder' = <<>>
    /\ concCall' = ConcCall("analyzer", operationCount, maxDelay, now,
                            PromiseAll(Slots(concOps')))
    /\ UNCHANGED <<now, loggerVars, trackVars, memVars, ctrlVars, pureVars, errVars, otherVars>>

\* the issue the analyzer logs when the fan-out took longer than maxDelay
BottleneckIssue(totalExecutionTime, operationCount, maxDelay, t) ==
    Issue(<<"async-bottleneck", t>>, "async_bottleneck",
          IF 2 * totalExecutionTime > 3 * maxDelay THEN CRITICAL ELSE HIGH,
          Metrics(totalExecutionTime, 0, operationCount, 0), None)

\* What follows the settling of an operation: the service's promise follows
\* Promise.all; the analyzer resumes after its await once Promise.all has
\* resolved, logs the bottleneck and returns the results.
ConcContinue(ops) ==
    LET all == PromiseAll(Slots(ops))
        totalExecutionTime == now - concCall.startTime
    IN  IF concCall.result.state # "pending"
        THEN UNCHANGED <<concCall, loggerVars>>
        ELSE /\ concCall' = [concCall EXCEPT !.result = all]
             /\ IF /\ concCall.variant = "analyzer"
                   /\ all.state = "resolved"
                   /\ totalExecutionTime > concCall.maxDelay
                THEN /\ logs' = PushIssue(logs,
                            BottleneckIssue(totalExecutionTime, concCall.operationCount,
                                            concCall.maxDelay, now), now)
                     /\ lastOp' = "logIssue"
                     /\ UNCHANGED <<retLogs, retAnalysis>>
                ELSE UNCHANGED loggerVars

\* the callback of the timer at delay runs
ConcTimerFires(i) ==
    /\ i \in DOMAIN concOps
    /\ concOps[i].timer = "armed"
    /\ now >= concCall.startTime + concOps[i].delay
    /\ concOps[i].timeoutTimer = "armed" => 2 * concOps[i].delay > concOps[i].delay
    /\ LET op == concOps[i]
           promise == IF op.promise.state # "pending" THEN op.promise
                      ELSE IF concCall.variant = "service"
                      THEN OperationOutcome(i, op.shouldFail, FALSE)
                      ELSE Resolved(OperationValue(i, <<>>))
           slot == IF concCall.variant = "service" THEN CatchOperationFailure(promise)
                   ELSE promise
       IN  /\ concOps' = [concOps EXCEPT ![i] =
                    [op EXCEPT !.timer = "fired",
                               !.timeoutTimer = IF @ = "armed" THEN "cleared" ELSE @,
                               !.promise = promise, !.slot = slot]]
           /\ concOrder' = IF op.promise.state = "pending" THEN Append(concOrder, i)
                           ELSE concOrder
    /\ ConcContinue(concOps')
    /\ UNCHANGED <<now, trackVars, memVars, ctrlVars, pureVars, errVars, otherVars>>

\* the callback of the timer at 2*delay runs
ConcTimeoutFires(i) ==
    /\ i \in DOMAIN concOps
    /\ concOps[i].timeoutTimer = "armed"
    /\ now >= concCall.startTime + 2 * concOps[i].delay
    /\ LET op == concOps[i]
           promise == OperationOutcome(i, op.shouldFail, TRUE)
       IN  /\ concOps' = [concOps EXCEPT ![i] =
                    [op EXCEPT !.timeoutTimer = "fired", !.promise = promise,
                               !.slot = CatchOperationFailure(promise)]]
           /\ concOrder' = Append(concOrder, i)
    /\ ConcContinue(concOps')
    /\ UNCHANGED <<now, trackVars, memVars, ctrlVars, pureVars, errVars, otherVars>>

ConcInit ==
    /\ concCall = ConcCall(None, 0, 0, 0, [state |-> "idle"])
    /\ concOps = <<>>
    /\ concOrder = <<>>

(***************************************************************************)
(* The other catch sites: AsyncBottleneckAnalyzer.detectBottlenecks and    *)
(* the recursive task of the memoized CpuIntensiveService.                 *)
(***************************************************************************)
DefaultOperationCount == 50
DefaultMaxDelay == 2000

\* "error instanceof Error ? error : new Error(...)" of detectBottlenecks
DetectErrorObj(error) ==
    IF error.kind = "Error" THEN error
    ELSE ErrorValue(IF error.kind = "string" THEN error.message
                    ELSE "Unknown async bottleneck detection error",
                    "stack:detectBottlenecks")

DetectErrorIssue(errorObj, t) ==
    Issue(<<"async-detection-error", t>>, "async_bottleneck", CRITICAL,
          Metrics(0, 0, 0, 1), errorObj.stack)

\* "return null"
NullIssue == Issue(<<None, 0>>, None, None, Metrics(0, 0, 0, 0), None)
DetectResult(state, error, issue) == [state |-> state, error |-> error, issue |-> issue]
NoError == [kind |-> None, message |-> None, stack |-> None]

\* new Array(10000).fill(currentDepth).reduce((a, b) => a + b, 0)
LargeArraySum(currentDepth) == 10000 * currentDepth

RECURSIVE RecursiveComputation(_, _)
\* recursiveComputation(currentDepth), running in stack frame number frame:
\* a call that does not fit the stack throws into the try of its caller,
\* whose catch writes to the console and returns 0
RecursiveComputation(currentDepth, frame) ==
    IF frame > MaxStackDepth THEN [threw |-> TRUE, value |-> 0, caught |-> 0]
    ELSE IF currentDepth <= 0 THEN [threw |-> FALSE, value |-> 0, caught |-> 0]
    ELSE LET inner == RecursiveComputation(currentDepth - 1, frame + 1)
         IN  IF inner.threw
             THEN [threw |-> FALSE, value |-> 0, caught |-> 1]
             ELSE [threw |-> FALSE,
                   value |-> currentDepth + inner.value + LargeArraySum(currentDepth),
                   caught |-> inner.caught]

CpuTask(depth, run) == [depth |-> depth, value |-> run.value, caught |-> run.caught]
RecursionDepths == {2, MaxStackDepth - 1, MaxStackDepth + 1}

recursiveCpuAndMemoryIntensiveTask(depth) ==
    /\ cpuTask' = CpuTask(depth, RecursiveComputation(depth, 1))
    /\ UNCHANGED <<now, loggerVars, trackVars, memVars, ctrlVars, pureVars, concVars,
                   detectResult, otherVars>>

ErrInit ==
    /\ detectResult = DetectResult("idle", NoError, NullIssue)
    /\ cpuTask = CpuTask(-1, [value |-> 0, caught |-> 0])

(***************************************************************************)
(* createPromiseChainBottleneck of AsyncBottleneckService, in the variant  *)
(* whose simulateAsyncOperation has a timeout timer ("timeout") and in the *)
(* one that has none ("plain").  Time is counted in units of the 100 ms a  *)
(* link waits.  An invocation runs synchronously up to the await of its    *)
(* first link; the callback of a timer and all that it resumes run in one  *)
(* step.                                                                   *)
(***************************************************************************)
Chains == 1..NumChains
ChainVariants == {"timeout", "plain"}
ChainLengths == 0..MaxChainLength

\* simulateAsyncOperation(100): the timer at delay and the timer at 2*delay
ChainDelay == 1
ChainTimeout == 2 * ChainDelay

\* result: the local accumulator; currentDepth: the link that is waiting;
\* links: how many links have started to wait
Chain(variant, chainLength, currentDepth, result, state, timer, timeoutTimer, started, links) ==
    [ variant |-> variant, chainLength |-> chainLength, currentDepth |-> currentDepth,
      result |-> result, state |-> state, timer |-> timer, timeoutTimer |-> timeoutTimer,
      started |-> started, links |-> links ]

IdleChain == Chain(None, 0, 0, 0, "idle", "none", "none", 0, 0)

\* The accumulator as one variable shared by the invocations.
SharedResultAfterLink(ch, c) ==
    LET RECURSIVE Sum(_)
        Sum(k) == IF k = 0 THEN 0 ELSE ch[k].result + Sum(k - 1)
    IN  Sum(NumChains) + ch[c].currentDepth

\* result += currentDepth
ResultAfterLink(ch, c) == ch[c].result + ch[c].currentDepth

\* createChainLink(currentDepth) of invocation c, up to its return or await
CreateChainLink(chain, currentDepth, result, t) ==
    IF currentDepth = 0
    THEN [chain EXCEPT !.currentDepth = 0, !.result = result, !.state = "resolved",
                       !.timer = "none", !.timeoutTimer = "none"]
    ELSE [chain EXCEPT !.currentDepth = currentDepth, !.result = result,
                       !.state = "waiting", !.timer = "armed",
                       !.timeoutTimer = IF chain.variant = "timeout" THEN "armed" ELSE "none",
                       !.started = t, !.links = @ + 1]

createPromiseChainBottleneck(c, variant, chainLength) ==
    /\ chains[c].state = "idle"
    /\ chains' = [chains EXCEPT ![c] =
            CreateChainLink(Chain(variant, chainLength, chainLength, 0, "idle",
                                  "none", "none", now, 0),
                            chainLength, 0, now)]
    /\ UNCHANGED <<now, loggerVars, trackVars, memVars, ctrlVars, pureVars, concVars, errVars, metaVars, cfgVars, diskVars, leakVars, lastVars>>

\* the callback of the timer at delay: clearTimeout, resolve; a link that is
\* still waiting resumes, adds its depth and starts the next link
ChainTimerFires(c) ==
    /\ chains[c].timer = "armed"
    /\ now >= chains[c].started + ChainDelay
    /\ chains' = [chains EXCEPT ![c] =
            IF chains[c].state = "waiting"
            THEN CreateChainLink([chains[c] EXCEPT !.timer = "fired"],
                                 chains[c].currentDepth - 1, ResultAfterLink(chains, c), now)
            ELSE [chains[c] EXCEPT !.timer = "fired"]]
    /\ UNCHANGED <<now, loggerVars, trackVars, memVars, ctrlVars, pureVars, concVars, errVars, metaVars, cfgVars, diskVars, leakVars, lastVars>>

\* the callback of the timer at 2*delay: the wait rejects, and with it the
\* link and the invocation; the timer at delay stays armed
ChainTimeoutFires(c) ==
    /\ chains[c].timeoutTimer = "armed"
    /\ now >= chains[c].started + ChainTimeout
    /\ chains' = [chains EXCEPT ![c] =
            [chains[c] EXCEPT !.timeoutTimer = "fired", !.state = "rejected"]]
    /\ UNCHANGED <<now, loggerVars, trackVars, memVars, ctrlVars, pureVars, concVars, errVars, metaVars, cfgVars, diskVars, leakVars, lastVars>>

ChainInit == chains = [c \in Chains |-> IdleChain]

(***************************************************************************)
(* createPerformanceConfig: the partial configuration spread over          *)
(* DEFAULT_CONFIG.  An object is a function from its own keys to values; a *)
(* key that is not supplied is not in the domain.                          *)
(***************************************************************************)
DEFAULT_CONFIG ==
    [logLevel |-> "log",
     thresholds |-> [memoryLeak |-> 100 * 1024 * 1024, cpuLoad |-> 80, asyncTimeout |-> 500],
     tracking |-> [memoryLeaks |-> TRUE, cpuPerformance |-> TRUE,
                   asyncBottlenecks |-> TRUE, systemProfiling |-> FALSE]]

NestedKeys == {"thresholds", "tracking"}

Restrict(obj, keys) == [k \in keys |-> obj[k]]

\* { ...a, ...b }: b's own keys win, a's other keys stay.
ObjectSpread(a, b) ==
    [k \in DOMAIN a \cup DOMAIN b |-> IF k \in DOMAIN b THEN b[k] ELSE a[k]]

\* config.thresholds / config.tracking as a spread operand: a missing key
\* reads undefined, and spreading undefined adds nothing.
SpreadOperand(config, key) ==
    IF key \in DOMAIN config THEN config[key] ELSE Restrict(config, {})

\* Without the nested spreads: config's thresholds and tracking replace the
\* defaults whole.
CreatePerformanceConfigShallow(defaults, config) == ObjectSpread(defaults, config)

CreatePerformanceConfig(defaults, config) ==
    ObjectSpread(ObjectSpread(defaults, config),
                 [thresholds |-> ObjectSpread(defaults.thresholds,
                                              SpreadOperand(config, "thresholds")),
                  tracking |-> ObjectSpread(defaults.tracking,
                                            SpreadOperand(config, "tracking"))])

\* The partial configurations tried: every subset of the top-level keys, with
\* nested objects that supply no key, one key or two keys (one outside the defaults,
\* one explicitly undefined).
ThresholdsSamples ==
    { Restrict([memoryLeak |-> 1024, cpuLoad |-> 90, memoryUsage |-> 70,
                asyncTimeout |-> NoNumber], keys) :
        keys \in {{}, {"cpuLoad"}, {"memoryUsage", "asyncTimeout"}, {"memoryLeak", "cpuLoad"}} }
TrackingSamples ==
    { Restrict([systemProfiling |-> TRUE, memoryLeaks |-> FALSE], keys) :
        keys \in {{}, {"systemProfiling"}, {"systemProfiling", "memoryLeaks"}} }
PartialConfigs ==
    { Restrict([logLevel |-> l, thresholds |-> t, tracking |-> r], keys) :
        l \in {"debug", "error", "undefined"}, t \in ThresholdsSamples, r \in TrackingSamples,
        keys \in SUBSET {"logLevel", "thresholds", "tracking"} }

\* createPerformanceConfig(config), on a fresh partial configuration or on the
\* result of the call before.
createPerformanceConfig(config, fedBack) ==
    /\ fedBack => (cfgCall.called /\ config = cfgCall.result)
    /\ cfgCall' = [called |-> TRUE, fedBack |-> fedBack, config |-> config,
                   result |-> CreatePerformanceConfig(defaultConfig, config)]
    /\ UNCHANGED <<now, loggerVars, trackVars, memVars, ctrlVars, pureVars, concVars, errVars, chains, metaVars, defaultConfig, diskVars, leakVars, lastVars>>

ConfigInit ==
    /\ defaultConfig = DEFAULT_CONFIG
    /\ cfgCall = [called |-> FALSE, fedBack |-> FALSE, config |-> DEFAULT_CONFIG,
                  result |-> DEFAULT_CONFIG]

\* What a detection call of an analyzer returned (NullIssue for null) and
\* the entries it appended to its logger: those of lNext after l.
Detection(analyzer, issue, l, lNext) ==
    [ analyzer |-> analyzer, issue |-> issue,
      appended |-> SubSeq(lNext, Len(l) + 1, Len(lNext)) ]

(***************************************************************************)
(* MemoryLeakAnalyzer: leaks that accumulate in one array, detectLeaks,    *)
(* and the cleanup.  The array is represented by its length.               *)
(***************************************************************************)
MEMORY_LEAK_THRESHOLD == 50 * 1024 * 1024

\* the counts handed to generateMemoryLeaks, and the heap sizes detectLeaks
\* may read
AnalyzerLeakCounts == {0, 500, 501}
HeapSamples == {0, MEMORY_LEAK_THRESHOLD + 1}

DetectsLeak(memoryUsed, leakedObjectCount) ==
    memoryUsed > MEMORY_LEAK_THRESHOLD \/ leakedObjectCount > 500

\* critical from 1000 objects on instead of above 1000
LeakIssueCriticalFrom1000(memoryUsed, leakedObjectCount, t) ==
    Issue(<<"memory-leak", t>>, "memory_leak",
          IF leakedObjectCount >= 1000 THEN CRITICAL ELSE HIGH,
          Metrics(0, memoryUsed, 0, 0), None)

LeakIssue(memoryUsed, leakedObjectCount, t) ==
    Issue(<<"memory-leak", t>>, "memory_leak",
          IF leakedObjectCount > 1000 THEN CRITICAL ELSE HIGH,
          Metrics(0, memoryUsed, 0, 0), None)

analyzerGenerateMemoryLeaks(count) ==
    /\ leakedObjects + Pushes(count) <= MaxLeakedObjects
    /\ leakedObjects' = leakedObjects + Pushes(count)
    /\ leakOp' = MemCall("generateMemoryLeaks", count)
    /\ UNCHANGED <<now, loggerVars, trackVars, memVars, ctrlVars, pureVars, concVars, errVars,
                   chains, metaVars, cfgVars, diskVars, leakIssue, lastVars>>

\* detectLeaks, with the logIssue it makes when it reports
analyzerDetectLeaks(memoryUsed, elapsed, appended) ==
    LET issue == LeakIssue(memoryUsed, leakedObjects, now)
    IN  /\ leakOp' = MemCall("detectLeaks", 0)
        /\ IF DetectsLeak(memoryUsed, leakedObjects)
           THEN /\ Len(logs) < MaxLogs
                /\ DiskLines(disk, 0) < MaxLogs
                /\ now + elapsed <= MaxTime
                /\ logs' = PushIssue(logs, issue, now)
                /\ now' = now + elapsed
                /\ disk' = WriteLogToDisk(disk, LogEntry("issue", issue, now),
                                          now + elapsed, appended)
                /\ retLogs' = <<>>
                /\ retAnalysis' = NoAnalysis
                /\ lastOp' = "logIssue"
                /\ leakIssue' = issue
           ELSE /\ leakIssue' = NullIssue
                /\ UNCHANGED <<now, loggerVars, disk>>
        /\ detection' = Detection("memory", leakIssue', logs, logs')
        /\ UNCHANGED <<trackVars, memVars, ctrlVars, pureVars, concVars, errVars,
                       chains, metaVars, cfgVars, leakedObjects, detVars, achain>>

analyzerAttemptMemoryCleanup ==
    /\ leakedObjects' = 0
    /\ leakOp' = MemCall("attemptMemoryCleanup", 0)
    /\ UNCHANGED <<now, loggerVars, trackVars, memVars, ctrlVars, pureVars, concVars, errVars,
                   chains, metaVars, cfgVars, diskVars, leakIssue, lastVars>>

LeakInit ==
    /\ leakedObjects = 0
    /\ leakOp = NoCall
    /\ leakIssue = NullIssue

(***************************************************************************)
(* PerformanceDetectorService: profileSystem logs the system metrics and   *)
(* analyzeSystemMetrics logs an issue for a load and for a memory usage    *)
(* above its threshold.  Percentages are whole numbers here.               *)
(***************************************************************************)
DefaultThresholds == [cpuLoad |-> 80, memoryUsage |-> 90, asyncTimeout |-> 500]

\* PerformanceMetricsInterface as profileSystem fills it
SystemMetrics(currentLoad, usagePercentage) ==
    [ currentLoad |-> currentLoad,
      usagePercentage |-> usagePercentage,
      latency |-> 0,
      processMemory |-> 0,
      totalRequests |-> 0,
      failedRequests |-> 0 ]

\* "x > threshold" where the threshold may be undefined: then it is false
Exceeds(x, threshold) == threshold # NoNumber /\ x > threshold

\* the severity of both analyses, critical from 95 on instead of above 95
SystemSeverityInclusive(percentage) == IF percentage >= 95 THEN CRITICAL ELSE HIGH

SystemSeverity(percentage) == IF percentage > 95 THEN CRITICAL ELSE HIGH

CpuLoadIssue(metrics, t) ==
    Issue(<<"cpu-load", t>>, "cpu_bottleneck", SystemSeverity(metrics.currentLoad),
          metrics, None)

MemoryUsageIssue(metrics, t) ==
    Issue(<<"memory-usage", t>>, "memory_leak", SystemSeverity(metrics.usagePercentage),
          metrics, None)

\* analyzeSystemMetrics(metrics, thresholds), as the entries it adds to the log
AnalyzeSystemMetrics(l, metrics, thresholds, t) ==
    LET afterCpu == IF Exceeds(metrics.currentLoad, thresholds.cpuLoad)
                    THEN PushIssue(l, CpuLoadIssue(metrics, t), t)
                    ELSE l
    IN  IF Exceeds(metrics.usagePercentage, thresholds.memoryUsage)
        THEN PushIssue(afterCpu, MemoryUsageIssue(metrics, t), t)
        ELSE afterCpu

\* the config.thresholds tried: none, one key, and a key that is undefined
ConfigThresholds ==
    { Restrict([cpuLoad |-> 50, memoryUsage |-> 97], keys) :
        keys \in {{}, {"cpuLoad"}, {"cpuLoad", "memoryUsage"}} }
      \cup { Restrict([cpuLoad |-> NoNumber, memoryUsage |-> 97], {"cpuLoad"}) }

\* the percentages measured: on either side of every threshold and of 95
CpuLoads == {50, 51, 80, 81, 95, 96}
MemoryUsages == {90, 91, 95, 96, 97, 98}

\* the entries written by one call, oldest first
RECURSIVE WriteAllToDisk(_, _, _, _)
WriteAllToDisk(files, entries, writeTime, appended) ==
    IF entries = <<>> THEN files
    ELSE WriteAllToDisk(WriteLogToDisk(files, Head(entries), writeTime, appended),
                        Tail(entries), writeTime, appended)

\* new PerformanceDetectorService(config)
PerformanceDetectorService(thresholds) ==
    /\ ~detector.constructed
    /\ detector' = [constructed |-> TRUE, thresholds |-> thresholds]
    /\ UNCHANGED <<now, loggerVars, trackVars, memVars, ctrlVars, pureVars, concVars, errVars,
                   chains, metaVars, cfgVars, diskVars, leakVars, profiled, achain,
                   detection>>

\* profileSystem(): the thresholds are merged, the metrics logged and analyzed
profileSystem(currentLoad, usagePercentage, appended) ==
    LET thresholds == ObjectSpread(DefaultThresholds, detector.thresholds)
        metrics == SystemMetrics(currentLoad, usagePercentage)
        logged == AnalyzeSystemMetrics(PushMetrics(logs, metrics, now), metrics,
                                       thresholds, now)
    IN  /\ detector.constructed
        /\ Len(logs) + 3 <= MaxLogs
        /\ appended => DiskLines(disk, 0) + 3 <= MaxLogs
        /\ logs' = logged
        /\ disk' = WriteAllToDisk(disk, SubSeq(logged, Len(logs) + 1, Len(logged)),
                                  now, appended)
        /\ retLogs' = <<>>
        /\ retAnalysis' = NoAnalysis
        /\ lastOp' = IF Len(logged) = Len(logs) + 1 THEN "logMetrics" ELSE "logIssue"
        /\ profiled' = [called |-> TRUE, metrics |-> metrics]
        /\ UNCHANGED <<now, trackVars, memVars, ctrlVars, pureVars, concVars, errVars,
                       chains, metaVars, cfgVars, leakVars, detector, achain, detection>>

DetectorInit ==
    /\ detector = [constructed |-> FALSE, thresholds |-> Restrict(DefaultThresholds, {})]
    /\ profiled = [called |-> FALSE, metrics |-> SystemMetrics(0, 0)]

(***************************************************************************)
(* AsyncBottleneckAnalyzer.createPromiseChainBottleneck: ten then-callbacks *)
(* in a row, each arming a timer of i * 100 ms and resolving with prev + i. *)
(* Times are in milliseconds since the call.                                *)
(***************************************************************************)
AnalyzerChainLength == 10
ChainStepDelay == 100
ChainHighTime == 1000
ChainCriticalTime == 2000

\* how late after its delay a timer's callback may run
TimerLateness == {0, 1}

\* innerResolve(prev + i), counting the steps from 1 instead
StepValueOneBased(prev, i) == prev + i + 1

StepValue(prev, i) == prev + i

PromiseChainIssue(totalExecutionTime, t) ==
    Issue(<<"promise-chain-bottleneck", t>>, "async_bottleneck",
          IF totalExecutionTime > ChainCriticalTime THEN CRITICAL ELSE HIGH,
          Metrics(totalExecutionTime, 0, AnalyzerChainLength, 0), None)

AnalyzerChain(state, armed, fired, prev, elapsed, result) ==
    [ state |-> state, armed |-> armed, fired |-> fired, prev |-> prev,
      elapsed |-> elapsed, result |-> result ]

\* The call: the first then-callback runs on Promise.resolve(0) and arms the
\* timer of step 0.
analyzerCreatePromiseChainBottleneck ==
    /\ achain.state # "waiting"
    /\ Len(logs) < MaxLogs
    /\ achain' = AnalyzerChain("waiting", {0}, {}, 0, 0, 0)
    /\ UNCHANGED <<now, loggerVars, trackVars, memVars, ctrlVars, pureVars, concVars, errVars,
                   chains, metaVars, cfgVars, diskVars, leakVars, detVars, detection>>

\* The timer of step i fires: its promise resolves with prev + i, and either
\* the next then-callback arms the timer of step i + 1, or the chain is
\* through: the await resumes, the bottleneck is checked and logged, and the
\* call resolves.
AnalyzerChainTimerFires(i, late) ==
    /\ achain.state = "waiting"
    /\ i \in achain.armed
    /\ LET value == StepValue(achain.prev, i)
           elapsed == achain.elapsed + i * ChainStepDelay + late
           fired == achain.fired \cup {i}
       IN  IF i + 1 < AnalyzerChainLength
           THEN /\ achain' = AnalyzerChain("waiting", (achain.armed \ {i}) \cup {i + 1},
                                           fired, value, elapsed, 0)
                /\ UNCHANGED <<loggerVars>>
           ELSE /\ achain' = AnalyzerChain("resolved", achain.armed \ {i}, fired, value,
                                           elapsed, value)
                /\ IF elapsed > ChainHighTime
                   THEN /\ logs' = PushIssue(logs, PromiseChainIssue(elapsed, now), now)
                        /\ retLogs' = <<>>
                        /\ retAnalysis' = NoAnalysis
                        /\ lastOp' = "logIssue"
                   ELSE UNCHANGED <<loggerVars>>
    /\ UNCHANGED <<now, trackVars, memVars, ctrlVars, pureVars, concVars, errVars,
                   chains, metaVars, cfgVars, diskVars, leakVars, detVars, detection>>

AnalyzerChainInit == achain = AnalyzerChain("idle", {}, {}, 0, 0, 0)

(***************************************************************************)
(* The detection calls of CpuPerformanceAnalyzer and                       *)
(* AsyncBottleneckAnalyzer.                                                *)
(***************************************************************************)
CPU_BOTTLENECK_THRESHOLD == 500
CpuCriticalTime == 1000
DatabaseOperationCount == 5
DatabaseHighTime == 1000
DatabaseCriticalTime == 2000

\* the milliseconds one calculateFibonacci of detectBottlenecks may take
CpuTimes == {0, CPU_BOTTLENECK_THRESHOLD, CPU_BOTTLENECK_THRESHOLD + 1,
             CpuCriticalTime + 1}

MaxOf(a, b) == IF a > b THEN a ELSE b

CpuBottleneckIssue(maxExecutionTime, t) ==
    Issue(<<"cpu-bottleneck", t>>, "cpu_bottleneck",
          IF maxExecutionTime > CpuCriticalTime THEN CRITICAL ELSE HIGH,
          Metrics(maxExecutionTime, 0, 3, 0), None)

\* CpuPerformanceAnalyzer.detectBottlenecks; times[i] is what the i-th
\* complexity level took
cpuDetectBottlenecks(times) ==
    LET maxExecutionTime == MaxOf(MaxOf(MaxOf(0, times[1]), times[2]), times[3])
        issue == CpuBottleneckIssue(maxExecutionTime, now)
    IN  /\ IF maxExecutionTime > CPU_BOTTLENECK_THRESHOLD
           THEN /\ Len(logs) < MaxLogs
                /\ logs' = PushIssue(logs, issue, now)
                /\ retLogs' = <<>>
                /\ retAnalysis' = NoAnalysis
                /\ lastOp' = "logIssue"
                /\ detection' = Detection("cpu", issue, logs, logs')
           ELSE /\ detection' = Detection("cpu", NullIssue, logs, logs)
                /\ UNCHANGED <<loggerVars>>
        /\ UNCHANGED <<now, trackVars, memVars, ctrlVars, pureVars, concVars, errVars,
                       chains, metaVars, cfgVars, diskVars, leakVars, detVars, achain>>

CpuTaskHighTime == 1000
CpuTaskCriticalTime == 2000

\* the milliseconds the loop of createCpuIntensiveTask may take
CpuTaskTimes == {CpuTaskHighTime, CpuTaskHighTime + 1, CpuTaskCriticalTime + 1}

\* graded medium and high instead of high and critical
CpuIntensiveIssueGraded(executionTime, t) ==
    Issue(<<"cpu-intensive", t>>, "cpu_bottleneck",
          IF executionTime > CpuTaskCriticalTime THEN HIGH ELSE MEDIUM,
          Metrics(executionTime, 0, 1, 0), None)

CpuIntensiveIssue(executionTime, t) ==
    Issue(<<"cpu-intensive", t>>, "cpu_bottleneck",
          IF executionTime > CpuTaskCriticalTime THEN CRITICAL ELSE HIGH,
          Metrics(executionTime, 0, 1, 0), None)

\* CpuPerformanceAnalyzer.createCpuIntensiveTask, whose loop took
\* executionTime; the sum it returns is kept nowhere
analyzerCreateCpuIntensiveTask(executionTime) ==
    /\ IF executionTime > CpuTaskHighTime
       THEN /\ Len(logs) < MaxLogs
            /\ logs' = PushIssue(logs, CpuIntensiveIssue(executionTime, now), now)
            /\ retLogs' = <<>>
            /\ retAnalysis' = NoAnalysis
            /\ lastOp' = "logIssue"
       ELSE UNCHANGED <<loggerVars>>
    /\ UNCHANGED <<now, trackVars, memVars, ctrlVars, pureVars, concVars, errVars,
                   chains, metaVars, cfgVars, diskVars, leakVars, lastVars>>

DatabaseIssue(totalExecutionTime, t) ==
    Issue(<<"database-bottleneck", t>>, "async_bottleneck",
          IF totalExecutionTime > DatabaseCriticalTime THEN CRITICAL ELSE HIGH,
          Metrics(totalExecutionTime, 0, DatabaseOperationCount, 0), None)

\* how long the three operations that detectBottlenecks awaits may take: the
\* fan-out, the chain (the sum of its delays, or more) and the database
\* operations (their longest delay, or more)
DetectTimes == {0, 2 * DefaultMaxDelay}
AnalyzerChainDelays ==
    ChainStepDelay * ((AnalyzerChainLength * (AnalyzerChainLength - 1)) \div 2)
AnalyzerChainTimes == { AnalyzerChainDelays + late : late \in TimerLateness }
DatabaseTimes == {200 * DatabaseOperationCount, 200 * DatabaseOperationCount + 1,
                  DatabaseCriticalTime + 1}

\* the awaited operations of detectBottlenecks: 0 for none
Throwers == 0..3

\* AsyncBottleneckAnalyzer.detectBottlenecks: the three awaited operations
\* run one after the other, each logging its bottleneck issue when it took
\* too long, and null is returned; or operation number thrower throws the
\* error, the operations after it do not run, and the catch logs and returns
\* the detection-error issue.
detectBottlenecks(totalExecutionTime, chainTime, databaseTime, thrower, error) ==
    LET concurrent == IF thrower # 1 /\ totalExecutionTime > DefaultMaxDelay
                      THEN PushIssue(logs,
                              BottleneckIssue(totalExecutionTime, DefaultOperationCount,
                                              DefaultMaxDelay, now), now)
                      ELSE logs
        chain == IF thrower \notin {1, 2} /\ chainTime > ChainHighTime
                 THEN PushIssue(concurrent, PromiseChainIssue(chainTime, now), now)
                 ELSE concurrent
        database == IF thrower \notin {1, 2, 3} /\ databaseTime > DatabaseHighTime
                    THEN PushIssue(chain, DatabaseIssue(databaseTime, now), now)
                    ELSE chain
        issue == DetectErrorIssue(DetectErrorObj(error), now)
    IN  /\ Len(logs) + 3 <= MaxLogs
        /\ IF thrower # 0
           THEN /\ logs' = PushIssue(database, issue, now)
                /\ detectResult' = DetectResult("caught", DetectErrorObj(error), issue)
           ELSE /\ logs' = database
                /\ detectResult' = DetectResult("returned", NoError, NullIssue)
        /\ detection' = Detection("async", detectResult'.issue, logs, logs')
        /\ lastOp' = "logIssue"
        /\ UNCHANGED <<now, retLogs, retAnalysis, trackVars, memVars, ctrlVars, pureVars,
                       concVars, cpuTask, chains, metaVars, cfgVars, diskVars, leakVars,
                       detVars, achain>>

DetectionInit == detection = Detection(None, NullIssue, <<>>, <<>>)

(***************************************************************************)
(* Decorator metadata: getPerformanceTrackMetadata reads the               *)
(* reflect-metadata store under PERFORMANCE_METADATA_KEY.                  *)
(***************************************************************************)
PERFORMANCE_METADATA_KEY == "performance:track"

\* A metadata value: undefined, or the options object that was defined.
Metadata(defined, value) == [defined |-> defined, value |-> value]
UndefinedMetadata == Metadata(FALSE, NoOptions)

\* Reflect.getMetadata(key, target, propertyKey) for the decorated method.
ReflectGetMetadata(store, key) ==
    IF key \in DOMAIN store THEN store[key] ELSE UndefinedMetadata

\* getPerformanceTrackMetadata(target, propertyKey).
getPerformanceTrackMetadata ==
    /\ retMetadata' = [called |-> TRUE,
                       decorated |-> \E c \in Calls : trackPc[c] # "undecorated",
                       options |-> trackOptions,
                       value |-> ReflectGetMetadata(reflectMetadata, PERFORMANCE_METADATA_KEY)]
    /\ UNCHANGED <<now, loggerVars, trackVars, memVars, ctrlVars, pureVars, concVars, errVars, chains, reflectMetadata, cfgVars, diskVars, leakVars, lastVars>>

\* No code of the repository calls Reflect.defineMetadata: the store starts
\* with nothing defined under the key and no action writes it.
MetaInit ==
    /\ reflectMetadata = [k \in {PERFORMANCE_METADATA_KEY} |-> UndefinedMetadata]
    /\ retMetadata = [called |-> FALSE, decorated |-> FALSE, options |-> NoOptions,
                      value |-> UndefinedMetadata]

(***************************************************************************)
(* The pure functions, applied to inputs drawn from bounded sets.          *)
(***************************************************************************)
ClassifiedTimes ==
    { 0, 1, MediumExecutionTime - 1, MediumExecutionTime, MediumExecutionTime + 1,
      HighExecutionTime - 1, HighExecutionTime, HighExecutionTime + 1,
      2 * HighExecutionTime }
ClassifiedMemory ==
    { -HighMemoryUsed, -1, 0, 1, MediumMemoryUsed - 1, MediumMemoryUsed,
      MediumMemoryUsed + 1, HighMemoryUsed - 1, HighMemoryUsed, HighMemoryUsed + 1,
      2 * HighMemoryUsed }

Measured(executionTime, memoryUsed, envelope) ==
    [executionTime |-> executionTime, memoryUsed |-> memoryUsed, envelope |-> envelope]

\* measurePerformance around a workload that returns, with the execution
\* time and the heap growth it measures
measurePerformance(executionTime, memoryUsed) ==
    /\ measured' = Measured(executionTime, memoryUsed,
            MeasurePerformance(Returned("result"), ValueDetails("result"),
                               executionTime, memoryUsed))
    /\ UNCHANGED <<now, loggerVars, trackVars, memVars, ctrlVars, concVars, errVars, otherVars, fibCall>>

FibCall(impl, n, outcome) == [impl |-> impl, n |-> n, outcome |-> outcome]
FibInputs == (-MinFib)..MaxFib

\* cpu-intensive.service.ts
calculateFibonacci(n) ==
    /\ fibCall' = FibCall("naive", n,
            IF FibonacciOverflows(n) THEN Threw(RangeError)
            ELSE Returned(CalculateFibonacci(n)))
    /\ UNCHANGED <<now, loggerVars, trackVars, memVars, ctrlVars, concVars, errVars, otherVars, measured>>

\* the memoized CpuIntensiveService, called with the default memo
calculateFibonacciMemoized(n) ==
    /\ fibCall' = FibCall("memoized", n,
            IF FibonacciOverflows(n) THEN Threw(RangeError)
            ELSE Returned(CalculateFibonacciMemoized(n, EmptyMemo).value))
    /\ UNCHANGED <<now, loggerVars, trackVars, memVars, ctrlVars, concVars, errVars, otherVars, measured>>

\* CpuPerformanceAnalyzer
calculateFibonacciAnalyzer(n) ==
    /\ fibCall' = FibCall("analyzer", n,
            IF FibonacciOverflows(n) THEN Threw(RangeError)
            ELSE Returned(CalculateFibonacciAnalyzer(n)))
    /\ UNCHANGED <<now, loggerVars, trackVars, memVars, ctrlVars, concVars, errVars, otherVars, measured>>

PureInit ==
    /\ measured = Measured(0, 0, NoResponse)
    /\ fibCall = FibCall(None, 0, Returned(0))

Init ==
    /\ now = 0
    /\ LoggerInit
    /\ TrackInit
    /\ MemInit
    /\ CtrlInit
    /\ PureInit
    /\ ConcInit
    /\ ErrInit
    /\ ChainInit
    /\ MetaInit
    /\ ConfigInit
    /\ DiskInit
    /\ LeakInit
    /\ DetectorInit
    /\ AnalyzerChainInit
    /\ DetectionInit

(***************************************************************************)
(* Spec: a PerformanceLogger under any sequence of calls.                  *)
(* Its methods read the in-memory list only; here the log directory cannot *)
(* be written (each append fails and is reported on the console), and      *)
(* SpecDisk explores the files.                                            *)
(***************************************************************************)
Next ==
    \/ Tick
    \/ \E m \in SampleMetrics : logMetrics(m, 0, FALSE)
    \/ \E i \in SampleIssues : logIssue(i, 0, FALSE)
    \/ \E o \in LogOptions : getLogs(o)
    \/ analyzeLogs
    \/ \E b \in BOOLEAN : clearLogs(b, IF b THEN Days ELSE {})

Spec == Init /\ [][Next]_vars

\* The logger and its files: the clock may advance between the stamping of an
\* entry and its write, a write may fail, and the removal of files may stop
\* part way.
NextDisk ==
    \/ Tick
    \/ \E m \in SampleMetrics, elapsed \in WriteDelays, appended \in BOOLEAN :
         logMetrics(m, elapsed, appended)
    \/ \E i \in { s \in SampleIssues : s.severity = CRITICAL },
          elapsed \in WriteDelays, appended \in BOOLEAN :
         logIssue(i, elapsed, appended)
    \/ \E b \in BOOLEAN, unlinked \in SUBSET Days : clearLogs(b, unlinked)

SpecDisk == Init /\ [][NextDisk]_vars

(***************************************************************************)
(* SpecTrack: calls of one decorated method, overlapping in any way.       *)
(***************************************************************************)
NextTrack ==
    \/ Tick
    \/ \E o \in TrackOptionSets : PerformanceTrack(o)
    \/ \E c \in Calls : TrackCall(c)
    \/ \E c \in Calls, v \in ReturnValues :
         \E e \in ExecutionTimes(trackOptions), m \in MemoryDeltas(trackOptions) :
            TrackResolve(c, v, e, m)
    \/ \E c \in Calls, t \in ThrownValues : TrackReject(c, t)

SpecTrack == Init /\ [][NextTrack]_vars

\* Decorating a method, calling it, and asking for its tracking metadata.
NextMeta ==
    \/ \E o \in TrackOptionSets : PerformanceTrack(o)
    \/ \E c \in Calls : TrackCall(c)
    \/ \E c \in Calls, t \in ThrownValues : TrackReject(c, t)
    \/ getPerformanceTrackMetadata

SpecMeta == Init /\ [][NextMeta]_vars

\* createPerformanceConfig applied to partial configurations and to its own
\* results.
NextConfig ==
    \/ \E config \in PartialConfigs : createPerformanceConfig(config, FALSE)
    \/ createPerformanceConfig(cfgCall.result, TRUE)

SpecConfig == Init /\ [][NextConfig]_vars

(***************************************************************************)
(* SpecCtrl: the MemoryLeakService called directly and through the         *)
(* memory-leak and cleanup endpoints of the controller.                    *)
(***************************************************************************)
NextCtrl ==
    \/ \E count \in LeakCounts : \E keys \in KeyDraws(count) :
          generateMemoryLeaks(count, keys)
    \/ analyzeMemoryLeaks
    \/ attemptMemoryCleanup
    \/ \E count \in LeakCounts : \E keys \in KeyDraws(count) :
          \E e \in MeasuredTimes, m \in MeasuredMemory : triggerMemoryLeak(count, keys, e, m)
    \/ performCleanup

SpecCtrl == Init /\ [][NextCtrl]_vars

(***************************************************************************)
(* SpecEndpoints: the three GET endpoints, with async-bottleneck workloads *)
(* running on after their requests were answered.                          *)
(***************************************************************************)
NextEndpoints ==
    \/ \E count \in LeakCounts : \E keys \in KeyDraws(count) :
          \E e \in MeasuredTimes, m \in MeasuredMemory : triggerMemoryLeak(count, keys, e, m)
    \/ \E x \in Complexities, e \in MeasuredTimes, m \in MeasuredMemory :
          triggerCpuIntensiveTask(x, e, m)
    \/ \E r \in Requests, e \in MeasuredTimes, m \in MeasuredMemory :
          triggerAsyncBottleneck(r, e, m)
    \/ \E r \in Requests, late \in BOOLEAN : AsyncOperationSettles(r, late)

SpecEndpoints == Init /\ [][NextEndpoints]_vars

\* Memory-leak requests, cleanup requests and async-bottleneck requests whose
\* workloads run on between them, all on the one MemoryLeakService.  The
\* measured heap difference is 0 throughout.
NextRequests ==
    \/ \E count \in LeakCounts : \E keys \in KeyDraws(count) :
          \E e \in MeasuredTimes : triggerMemoryLeak(count, keys, e, 0)
    \/ performCleanup
    \/ \E r \in Requests : triggerAsyncBottleneck(r, 0, 0)
    \/ \E r \in Requests, late \in BOOLEAN : AsyncOperationSettles(r, late)

SpecRequests == Init /\ [][NextRequests]_vars

\* A MemoryLeakAnalyzer and its logger under any sequence of calls, at one
\* clock value and, as in Spec, with a log directory that cannot be written.
NextLeak ==
    \/ \E count \in AnalyzerLeakCounts : analyzerGenerateMemoryLeaks(count)
    \/ \E memoryUsed \in HeapSamples : analyzerDetectLeaks(memoryUsed, 0, FALSE)
    \/ analyzerAttemptMemoryCleanup
    \/ \E b \in BOOLEAN : clearLogs(b, IF b THEN Days ELSE {})

SpecLeak == Init /\ [][NextLeak]_vars

\* A PerformanceDetectorService with some configuration, profiling again and
\* again; its logger is cleared between the calls.
NextDetector ==
    \/ Tick
    \/ \E thresholds \in ConfigThresholds : PerformanceDetectorService(thresholds)
    \/ \E currentLoad \in CpuLoads, usagePercentage \in MemoryUsages :
          profileSystem(currentLoad, usagePercentage, FALSE)
    \/ \E b \in BOOLEAN : clearLogs(b, IF b THEN Days ELSE {})

SpecDetector == Init /\ [][NextDetector]_vars

\* An AsyncBottleneckAnalyzer whose createPromiseChainBottleneck is called
\* again and again, with timers that fire on time or late.
NextAnalyzerChain ==
    \/ analyzerCreatePromiseChainBottleneck
    \/ \E i \in 0..(AnalyzerChainLength - 1), late \in TimerLateness :
          AnalyzerChainTimerFires(i, late)

SpecAnalyzerChain == Init /\ [][NextAnalyzerChain]_vars

(***************************************************************************)
(* SpecCounts: the operations of a PerformanceLogger that write the list   *)
(* or count it, as the clock advances.                                     *)
(***************************************************************************)
NextCounts ==
    \/ Tick
    \/ \E m \in SampleMetrics : logMetrics(m, 0, FALSE)
    \/ \E i \in SampleIssues : logIssue(i, 0, FALSE)
    \/ analyzeLogs
    \/ \E b \in BOOLEAN : clearLogs(b, IF b THEN Days ELSE {})

SpecCounts == Init /\ [][NextCounts]_vars

(***************************************************************************)
(* SpecDetect: the detection calls of the three analyzers on one logger.   *)
(***************************************************************************)
NextDetect ==
    \/ \E first \in CpuTimes, last \in CpuTimes : cpuDetectBottlenecks(<<first, 0, last>>)
    \/ \E count \in AnalyzerLeakCounts : analyzerGenerateMemoryLeaks(count)
    \/ \E memoryUsed \in HeapSamples : analyzerDetectLeaks(memoryUsed, 0, FALSE)
    \/ \E t \in DetectTimes, chainTime \in AnalyzerChainTimes,
          databaseTime \in DatabaseTimes, thrower \in Throwers :
         detectBottlenecks(t, chainTime, databaseTime, thrower,
                           ErrorValue("boom", "stack:original-method"))
    \/ \E b \in BOOLEAN : clearLogs(b, IF b THEN Days ELSE {})

SpecDetect == Init /\ [][NextDetect]_vars

(***************************************************************************)
(* SpecToolkit: the components of the toolkit that log issues, each with   *)
(* measurements on both sides of its severity threshold, and the           *)
(* controller's envelope of a request that returns and of one that throws. *)
(***************************************************************************)
NextToolkit ==
    \/ PerformanceDetectorService(Restrict(DefaultThresholds, {}))
    \/ \E m \in {<<81, 91>>, <<96, 96>>} : profileSystem(m[1], m[2], FALSE)
    \/ PerformanceTrack(NoOptions)
    \/ TrackCall(1)
    \/ \E e \in {DefaultExecutionTimeThreshold + 1, 2 * DefaultExecutionTimeThreshold + 1} :
         TrackResolve(1, "value-a", e, -1)
    \/ TrackReject(1, ErrorValue("boom", "stack:original-method"))
    \/ \E e \in {CpuTaskHighTime + 1, CpuTaskCriticalTime + 1} :
         analyzerCreateCpuIntensiveTask(e)
    \/ \E t \in {CPU_BOTTLENECK_THRESHOLD + 1, CpuCriticalTime + 1} :
         cpuDetectBottlenecks(<<0, 0, t>>)
    \/ analyzerGenerateMemoryLeaks(1001)
    \/ analyzerDetectLeaks(MEMORY_LEAK_THRESHOLD + 1, 0, FALSE)
    \/ \E t \in DetectTimes, thrower \in {0, 3} :
         detectBottlenecks(t, AnalyzerChainDelays, DatabaseHighTime + 1, thrower,
                           ErrorValue("boom", "stack:original-method"))
    \/ \E e \in {0, MediumExecutionTime + 1, HighExecutionTime + 1} :
         triggerCpuIntensiveTask(1, e, 0)
    \/ triggerCpuIntensiveTask(MaxStackDepth + 1, 0, 0)

SpecToolkit == Init /\ [][NextToolkit]_vars

(***************************************************************************)
(* SpecClassify: the threshold classifier of measurePerformance on         *)
(* measurements around its thresholds.                                     *)
(***************************************************************************)
NextClassify ==
    \E e \in ClassifiedTimes, m \in ClassifiedMemory : measurePerformance(e, m)

SpecClassify == Init /\ [][NextClassify]_vars

(***************************************************************************)
(* SpecFib: the three calculateFibonacci implementations.                  *)
(***************************************************************************)
NextFib ==
    \/ \E n \in FibInputs : calculateFibonacci(n)
    \/ \E n \in FibInputs : calculateFibonacciMemoized(n)
    \/ \E n \in FibInputs : calculateFibonacciAnalyzer(n)

SpecFib == Init /\ [][NextFib]_vars

(***************************************************************************)
(* SpecConc: one createConcurrentAsyncBottleneck call of either class, on  *)
(* the event loop.                                                         *)
(***************************************************************************)
NextConc ==
    \/ Tick
    \/ \E operationCount \in OperationCounts, maxDelay \in 1..MaxDelay :
         \E delays \in [1..operationCount -> OperationDelays(maxDelay)],
            fails \in [1..operationCount -> BOOLEAN] :
              createConcurrentAsyncBottleneck(operationCount, maxDelay, delays, fails)
    \/ \E operationCount \in OperationCounts, maxDelay \in 1..MaxDelay :
         \E delays \in [1..operationCount -> OperationDelays(maxDelay)] :
              analyzerCreateConcurrentAsyncBottleneck(operationCount, maxDelay, delays)
    \/ \E i \in 1..MaxOperations : ConcTimerFires(i)
    \/ \E i \in 1..MaxOperations : ConcTimeoutFires(i)

SpecConc == Init /\ [][NextConc]_vars

(***************************************************************************)
(* SpecErr: the places where the toolkit catches an error of a workload.   *)
(***************************************************************************)
NextErr ==
    \/ PerformanceTrack(NoOptions)
    \/ \E c \in Calls : TrackCall(c)
    \/ \E c \in Calls, error \in ThrownValues : TrackReject(c, error)
    \/ \E t \in DetectTimes, thrower \in Throwers, error \in ThrownValues :
         detectBottlenecks(t, AnalyzerChainDelays, 200 * DatabaseOperationCount,
                           thrower, error)
    \/ \E complexity \in {1, MaxStackDepth + 1} :
         triggerCpuIntensiveTask(complexity, 0, 0)
    \/ \E depth \in RecursionDepths : recursiveCpuAndMemoryIntensiveTask(depth)

SpecErr == Init /\ [][NextErr]_vars

(***************************************************************************)
(* SpecChain: concurrent createPromiseChainBottleneck invocations on the   *)
(* event loop.                                                             *)
(***************************************************************************)
NextChain ==
    \/ Tick
    \/ \E c \in Chains, variant \in ChainVariants, chainLength \in ChainLengths :
         createPromiseChainBottleneck(c, variant, chainLength)
    \/ \E c \in Chains : ChainTimerFires(c)
    \/ \E c \in Chains : ChainTimeoutFires(c)

SpecChain == Init /\ [][NextChain]_vars

(***************************************************************************)
(* C1 (as stated): the log is append-only over any sequence of logMetrics, *)
(* logIssue, getLogs, analyzeLogs and clearLogs calls: every step leaves   *)
(* the entries already in the list in place.  clearLogs breaks it.         *)
(***************************************************************************)
C1_AppendOnlyAlways == [][IsPrefix(logs, logs')]_vars

(***************************************************************************)
(* C1 (amended): each logMetrics/logIssue call adds exactly one entry, of  *)
(* its own type and stamped with the current time, at the end of the list  *)
(* and leaves the entries before it as they are; getLogs and analyzeLogs   *)
(* leave the list as it is; only clearLogs removes entries, and it removes *)
(* all of them.  (A step that leaves the clock alone is a logger call, and *)
(* lastOp' names it.)                                                      *)
(***************************************************************************)
C1_AppendOnlyUntilCleared ==
    [][ now' = now =>
          /\ lastOp' = "logMetrics" =>
                /\ Len(logs') = Len(logs) + 1
                /\ IsPrefix(logs, logs')
                /\ Last(logs').type = "metric"
                /\ Last(logs').timestamp = now
          /\ lastOp' = "logIssue" =>
                /\ Len(logs') = Len(logs) + 1
                /\ IsPrefix(logs, logs')
                /\ Last(logs').type = "issue"
                /\ Last(logs').timestamp = now
          /\ lastOp' \in {"getLogs", "analyzeLogs"} => logs' = logs
          /\ lastOp' = "clearLogs" => logs' = <<>>
      ]_vars

\* C1 witness: a metric entry followed by an issue entry, both still in
\* place after a later logIssue call.
C1_Witness ==
    /\ Len(logs) = 3
    /\ logs[1].type = "metric"
    /\ logs[2].type = "issue"
    /\ lastOp = "logIssue"

(***************************************************************************)
(* C7: when the wrapped method throws or rejects, the wrapper appends      *)
(* exactly one entry in that step, an issue of type 'custom' and severity  *)
(* critical with failedRequests = 1 and the stack trace of the error it    *)
(* rethrows; no metric entry; and the wrapper's promise rejects with an    *)
(* Error, the original one when the thrown value is an Error.              *)
(***************************************************************************)
C7_RejectLogsOneCriticalIssue ==
    [][ \A c \in Calls :
          (trackPc[c] = "awaiting" /\ trackPc'[c] = "rejected") =>
             /\ Len(trackLogs') = Len(trackLogs) + 1
             /\ IsPrefix(trackLogs, trackLogs')
             /\ Last(trackLogs').type = "issue"
             /\ Last(trackLogs').data.type = "custom"
             /\ Last(trackLogs').data.severity = CRITICAL
             /\ Last(trackLogs').data.metrics.failedRequests = 1
             /\ trackResult'[c].state = "rejected"
             /\ trackResult'[c].value.kind = "Error"
             /\ Last(trackLogs').data.stackTrace = trackResult'[c].value.stack
             /\ origOutcome'[c].state = "rejected"
             /\ origOutcome'[c].value.kind = "Error" =>
                    trackResult'[c].value = origOutcome'[c].value
      ]_vars

\* C7 witness: one call rejected with the original Error, another with an
\* Error made from a thrown string, each with its issue entry in the log.
C7_Witness ==
    /\ trackPc[1] = "rejected"
    /\ trackPc[2] = "rejected"
    /\ origOutcome[1].value.kind = "Error"
    /\ origOutcome[2].value.kind = "string"
    /\ Len(trackLogs) = 2
    /\ trackLogs[1].data.stackTrace = "stack:original-method"
    /\ trackLogs[2].data.stackTrace = "stack:PerformanceTrack"

(***************************************************************************)
(* C2: attemptMemoryCleanup, called directly or through POST cleanup,      *)
(* leaves all four stores empty whatever they held; an analyzeMemoryLeaks  *)
(* that follows it reports leakedObjectCount = 0 and severity 'low'; and a *)
(* cleanup that follows a cleanup changes no store.                        *)
(***************************************************************************)
C2_CleanupClearsAllStores ==
    [][ /\ memCalls'[1].op = "attemptMemoryCleanup" =>
              /\ leakyCache' = 0
              /\ leakyArray' = 0
              /\ closureLeak' = 0
              /\ eventListenerLeaks' = 0
        /\ ( /\ memCalls'[1].op = "analyzeMemoryLeaks"
             /\ memCalls'[2].op = "attemptMemoryCleanup" ) =>
              /\ memAnalytics'.leakedObjectCount = 0
              /\ memAnalytics'.severity = "low"
        /\ ( /\ memCalls[1].op = "attemptMemoryCleanup"
             /\ memCalls'[1].op = "attemptMemoryCleanup" ) =>
              UNCHANGED <<leakyCache, leakyArray, closureLeak, eventListenerLeaks>>
      ]_vars

\* C2 witness: the memory-leak endpoint reported more than 1000 leaked
\* objects, then came a cleanup, and the analysis after it reports none.
C2_Witness ==
    /\ response.details.kind = "value"
    /\ response.details.value.leakedObjectCount > 1000
    /\ memCalls[2].op = "attemptMemoryCleanup"
    /\ memCalls[1].op = "analyzeMemoryLeaks"
    /\ memAnalytics.leakedObjectCount = 0

(***************************************************************************)
(* C9: the analyzeMemoryLeaks that follows a generateMemoryLeaks(count)    *)
(* with count >= 1 reports leakedObjectCount > 0, a severity among 'low',  *)
(* 'medium', 'high', and a leakedObjectCount that is the sum of the four   *)
(* counts of leakDetails.                                                  *)
(***************************************************************************)
C9_GenerateThenAnalyze ==
    ( /\ memCalls[1].op = "analyzeMemoryLeaks"
      /\ memCalls[2].op = "generateMemoryLeaks"
      /\ memCalls[2].count >= 1 ) =>
        /\ memAnalytics.leakedObjectCount > 0
        /\ memAnalytics.severity \in {"low", "medium", "high"}
        /\ memAnalytics.leakedObjectCount =
              memAnalytics.leakDetails.cacheSizeCount
            + memAnalytics.leakDetails.arraySize
            + memAnalytics.leakDetails.closureLeakCount
            + memAnalytics.leakDetails.eventListenerLeakCount

\* C9 witness: an analysis right after generateMemoryLeaks(126) in which two
\* cache keys collided: 502 objects, severity 'medium'.
C9_Witness ==
    /\ memCalls[1].op = "analyzeMemoryLeaks"
    /\ memCalls[2] = MemCall("generateMemoryLeaks", 126)
    /\ memAnalytics.leakedObjectCount = 502
    /\ memAnalytics.severity = "medium"

(***************************************************************************)
(* C5: for an answered async-bottleneck request the 'after' snapshot was   *)
(* taken when all four awaited operations had completed, and the details   *)
(* field of the envelope holds their results, not a promise.               *)
(***************************************************************************)
C5_MeasurementBracketsWorkload ==
    \A r \in Requests :
        asyncReq[r].state # "idle" =>
            /\ asyncReq[r].measuredAt = Len(AsyncOperations)
            /\ asyncResponse[r].details.kind = "value"

(***************************************************************************)
(* C6: whenever the workload of an endpoint has failed, by a synchronous   *)
(* throw or, for async-bottleneck, by the rejection of its promise, the    *)
(* envelope returned is the error envelope: problemDetected, severity      *)
(* 'high', details null, zeroed metrics, errorDetails filled in.           *)
(***************************************************************************)
IsErrorEnvelope(e) ==
    /\ e.problemDetected
    /\ e.severity = "high"
    /\ e.details = NullDetails
    /\ e.metrics = [executionTime |-> 0, memoryUsed |-> 0, peakMemoryUsage |-> 0]
    /\ e.errorDetails.present

C6_NoFailureEscapes ==
    /\ workload = "threw" => IsErrorEnvelope(response)
    /\ \A r \in Requests :
          asyncReq[r].state = "rejected" => IsErrorEnvelope(asyncResponse[r])

(***************************************************************************)
(* C3: for every measurement (executionTime, memoryUsed) of a workload     *)
(* that returned, the envelope's severity is 'high' iff executionTime >    *)
(* 5000 or memoryUsed > 100*1024*1024, otherwise 'medium' iff              *)
(* executionTime > 2000 or memoryUsed > 50*1024*1024, otherwise 'low' (so  *)
(* 'low' for a negative memory delta with executionTime <= 2000), and      *)
(* problemDetected is true iff the severity is not 'low'.                  *)
(***************************************************************************)
C3_ThresholdClassifier ==
    measured.envelope # NoResponse =>
        LET e == measured.executionTime
            m == measured.memoryUsed
            severity == measured.envelope.severity
            high == e > 5000 \/ m > 100 * 1024 * 1024
            medium == ~high /\ (e > 2000 \/ m > 50 * 1024 * 1024)
        IN  /\ severity \in {"low", "medium", "high"}
            /\ severity = "high" <=> high
            /\ severity = "medium" <=> medium
            /\ severity = "low" <=> (~high /\ ~medium)
            /\ (m < 0 /\ e <= 2000) => severity = "low"
            /\ measured.envelope.problemDetected <=> severity # "low"

\* C3 witness: a measurement exactly on the 'high' thresholds is 'medium'.
C3_Witness ==
    /\ measured.executionTime = 5000
    /\ measured.memoryUsed = 100 * 1024 * 1024
    /\ measured.envelope.severity = "medium"
    /\ measured.envelope.problemDetected

(***************************************************************************)
(* C10 (as stated): every calculateFibonacci call returns, with the n-th   *)
(* Fibonacci number for n >= 0 (a value > 0 for n >= 1) and with n itself  *)
(* for n <= 1, and the memoized and the analyzer's implementation return   *)
(* the value the naive service implementation computes.                    *)
(***************************************************************************)
RECURSIVE C10_FibFrom(_, _, _)
\* the k-th Fibonacci number after the consecutive pair (a, b)
C10_FibFrom(k, a, b) == IF k = 0 THEN a ELSE C10_FibFrom(k - 1, b, a + b)
C10_Fib(n) == C10_FibFrom(n, 0, 1)

C8_ConcurrentResolvesInOrder ==
    /\ concCall.result.state # "rejected"
    /\ concCall.result.state = "resolved" =>
        /\ Len(concCall.result.value) = concCall.operationCount
        /\ \A i \in 1..concCall.operationCount :
            /\ concOps[i].promise.state # "pending"
            /\ concCall.result.value[i].op = i
            /\ concOps[i].promise.state = "resolved" =>
                    concCall.result.value[i] = concOps[i].promise.value
            /\ concOps[i].promise.state = "rejected" =>
                    concCall.result.value[i].text =
                        <<"Operation failed: ">> \o concOps[i].promise.value.text

\* C8 witness: the service's call resolved after its second operation
\* settled before its first, one of them failed and one timed out.
C8_Witness ==
    /\ concCall.variant = "service"
    /\ concCall.result.state = "resolved"
    /\ concOrder = <<2, 1>>
    /\ \E i, j \in DOMAIN concOps :
        /\ concCall.result.value[i].text = <<"Operation failed: ", "Operation timed out">>
        /\ concCall.result.value[j].text = <<"Operation failed: ", "Simulated operation failure">>

(***************************************************************************)
(* The steps of SpecErr in which an error of a workload is caught, and the *)
(* stack of the error caught.                                              *)
(***************************************************************************)
C4_TrackCatches(c) == trackPc[c] = "awaiting" /\ trackPc'[c] = "rejected"
C4_DetectCatches == detectResult' # detectResult /\ detectResult'.state = "caught"
C4_ControllerCatches == response' # response /\ response'.errorDetails.present
C4_CpuServiceCatches == cpuTask' # cpuTask /\ cpuTask'.caught > 0

\* the entries a step appended to log l are one issue of severity
\* 'critical' with the given stack trace, after any other entries
C4_RecordsCriticalIssue(l, lNext, stack) ==
    /\ IsPrefix(l, lNext)
    /\ Len(lNext) > Len(l)
    /\ Last(lNext).type = "issue"
    /\ Last(lNext).data.severity = CRITICAL
    /\ Last(lNext).data.stackTrace = stack

(***************************************************************************)
(* C4 (as stated): in every step in which the PerformanceTrack wrapper,    *)
(* detectBottlenecks, the controller's measurePerformance or the           *)
(* CpuIntensiveService catches an error, an issue of severity 'critical'   *)
(* with the error's stack trace is appended to a log.                      *)
(***************************************************************************)
C4_EveryCatchRecordsCriticalIssue ==
    [][ /\ \A c \in Calls : C4_TrackCatches(c) =>
              C4_RecordsCriticalIssue(trackLogs, trackLogs', trackResult'[c].value.stack)
        /\ C4_DetectCatches =>
              C4_RecordsCriticalIssue(logs, logs', detectResult'.error.stack)
        /\ C4_ControllerCatches =>
              \/ C4_RecordsCriticalIssue(logs, logs', response'.errorDetails.stack)
              \/ C4_RecordsCriticalIssue(trackLogs, trackLogs', response'.errorDetails.stack)
        /\ C4_CpuServiceCatches =>
              \/ C4_RecordsCriticalIssue(logs, logs', RangeError.stack)
              \/ C4_RecordsCriticalIssue(trackLogs, trackLogs', RangeError.stack)
      ]_vars

(***************************************************************************)
(* C4 (amended): the catch of the PerformanceTrack wrapper and the catch   *)
(* of detectBottlenecks append one issue of severity 'critical' with the   *)
(* stack of the Error they caught (or made from the value they caught) to  *)
(* their logger; the catch of the controller's measurePerformance appends  *)
(* nothing to a log and returns an envelope of severity 'high' with the    *)
(* Error's stack in errorDetails; the catch of the CpuIntensiveService's   *)
(* recursive task appends nothing to a log and makes the call return a     *)
(* number.                                                                 *)
(***************************************************************************)
C4_CatchSitesRecord ==
    [][ /\ \A c \in Calls : C4_TrackCatches(c) =>
              /\ C4_RecordsCriticalIssue(trackLogs, trackLogs', trackResult'[c].value.stack)
              /\ Len(trackLogs') = Len(trackLogs) + 1
              /\ origOutcome'[c].value.kind = "Error" =>
                    Last(trackLogs').data.stackTrace = origOutcome'[c].value.stack
              /\ logs' = logs
        /\ C4_DetectCatches =>
              /\ C4_RecordsCriticalIssue(logs, logs', detectResult'.error.stack)
              /\ detectResult'.issue = Last(logs').data
              /\ detectResult'.error.kind = "Error"
              /\ trackLogs' = trackLogs
        /\ C4_ControllerCatches =>
              /\ logs' = logs /\ trackLogs' = trackLogs
              /\ response'.severity = "high"
              /\ response'.problemDetected
              /\ response'.errorDetails.stack = RangeError.stack
        /\ C4_CpuServiceCatches =>
              /\ logs' = logs /\ trackLogs' = trackLogs
              /\ cpuTask'.value >= 0
      ]_vars

\* C4 witness: each of the four sites has caught an error: the wrapper's
\* and the analyzer's loggers end with a critical issue, the controller
\* answered with the 'high' envelope and the recursive task returned.
C4_Witness ==
    /\ \E c \in Calls : trackPc[c] = "rejected"
    /\ Len(trackLogs) > 0 /\ Last(trackLogs).data.severity = CRITICAL
    /\ detectResult.state = "caught"
    /\ Len(logs) > 0 /\ Last(logs).data = detectResult.issue
    /\ response.errorDetails.present /\ response.severity = "high"
    /\ cpuTask.caught > 0

\* the timers of invocation c that are pending
C11_PendingTimers(c) ==
    (IF chains[c].timer = "armed" THEN 1 ELSE 0)
        + (IF chains[c].timeoutTimer = "armed" THEN 1 ELSE 0)

(***************************************************************************)
(* C11 (as stated): an invocation of createPromiseChainBottleneck never    *)
(* rejects, has at most one timer pending at any time, and once resolved   *)
(* holds chainLength*(chainLength+1)/2, whatever other invocations do.     *)
(***************************************************************************)
C11_ChainResolvesToSum ==
    \A c \in Chains :
        /\ chains[c].state # "rejected"
        /\ C11_PendingTimers(c) <= 1
        /\ chains[c].state = "resolved" =>
              2 * chains[c].result = chains[c].chainLength * (chains[c].chainLength + 1)

(***************************************************************************)
(* C11 (amended): an invocation resolves only when all its chainLength     *)
(* links have waited, one after another, and then holds                    *)
(* chainLength*(chainLength+1)/2, whatever other invocations do; while     *)
(* link k waits the accumulator holds the sum of the depths above k and    *)
(* the timers pending are those of link k alone: one in the plain variant, *)
(* two in the variant with a timeout; an invocation rejects only in the    *)
(* variant with a timeout, when the timer at 2*delay of a waiting link ran *)
(* before its timer at delay, and then the timer at delay is left pending. *)
(***************************************************************************)
C11_ChainSumUnlessTimeout ==
    \A c \in Chains :
        LET chain == chains[c]
            L == chain.chainLength
            k == chain.currentDepth
        IN  /\ chain.state = "resolved" =>
                /\ 2 * chain.result = L * (L + 1)
                /\ chain.links = L
                /\ C11_PendingTimers(c) = 0
            /\ chain.state = "waiting" =>
                /\ k \in 1..L
                /\ chain.links = L - k + 1
                /\ 2 * chain.result = L * (L + 1) - k * (k + 1)
                /\ chain.timer = "armed"
                /\ C11_PendingTimers(c) = (IF chain.variant = "timeout" THEN 2 ELSE 1)
            /\ chain.state = "rejected" =>
                /\ chain.variant = "timeout"
                /\ chain.timeoutTimer = "fired"
                /\ C11_PendingTimers(c) <= 1
            /\ chain.state = "idle" => C11_PendingTimers(c) = 0

\* C11 witness: two overlapping invocations of different lengths, one of
\* each variant, have both resolved, each with its own sum.
C11_Witness ==
    /\ chains[1].state = "resolved" /\ chains[1].variant = "plain"
    /\ chains[1].chainLength = 2 /\ chains[1].result = 3
    /\ chains[2].state = "resolved" /\ chains[2].variant = "timeout"
    /\ chains[2].chainLength = 1 /\ chains[2].result = 1

(***************************************************************************)
(* C12: any two issue records that the wrapper of a decorated method has   *)
(* created and logged have different ids.                                  *)
(***************************************************************************)
C12_IssueIdsUnique ==
    \A i, j \in 1..Len(trackLogs) :
        (i < j /\ trackLogs[i].type = "issue" /\ trackLogs[j].type = "issue")
            => trackLogs[i].data.id # trackLogs[j].data.id

(***************************************************************************)
(* C13: getPerformanceTrackMetadata, called for a method that              *)
(* PerformanceTrack(options) was applied to, returns those options; it     *)
(* returns undefined only for a method that was never decorated.           *)
(***************************************************************************)
C13_MetadataIsTheOptions ==
    (retMetadata.called /\ retMetadata.decorated)
        => retMetadata.value = Metadata(TRUE, retMetadata.options)

(***************************************************************************)
(* C14: createPerformanceConfig(config) merges config with the defaults:   *)
(* every top-level key and every key of thresholds and of tracking that    *)
(* config supplies has config's value in the result, every key it omits    *)
(* has the DEFAULT_CONFIG value; an empty config gives DEFAULT_CONFIG;     *)
(* applied to its own result it returns an equal configuration; and        *)
(* DEFAULT_CONFIG is never changed.                                        *)
(***************************************************************************)
C14_MergedGroup(config, result, group) ==
    LET supplied == SpreadOperand(config, group)
    IN  /\ DOMAIN result[group] = DOMAIN DEFAULT_CONFIG[group] \cup DOMAIN supplied
        /\ \A k \in DOMAIN supplied : result[group][k] = supplied[k]
        /\ \A k \in DOMAIN DEFAULT_CONFIG[group] \ DOMAIN supplied :
              result[group][k] = DEFAULT_CONFIG[group][k]

C14_ConfigMergesWithDefaults ==
    /\ defaultConfig = DEFAULT_CONFIG
    /\ cfgCall.called =>
         /\ DOMAIN cfgCall.result = DOMAIN DEFAULT_CONFIG \cup DOMAIN cfgCall.config
         /\ \A k \in DOMAIN cfgCall.config \ NestedKeys :
               cfgCall.result[k] = cfgCall.config[k]
         /\ \A k \in DOMAIN DEFAULT_CONFIG \ (DOMAIN cfgCall.config \cup NestedKeys) :
               cfgCall.result[k] = DEFAULT_CONFIG[k]
         /\ \A group \in NestedKeys : C14_MergedGroup(cfgCall.config, cfgCall.result, group)
         /\ DOMAIN cfgCall.config = {} => cfgCall.result = DEFAULT_CONFIG
         /\ cfgCall.fedBack => cfgCall.result = cfgCall.config

\* A configuration that supplies one threshold was merged, and the result was
\* fed back.
C14_Witness ==
    /\ cfgCall.called /\ cfgCall.fedBack
    /\ cfgCall.result.thresholds.cpuLoad = 90
    /\ cfgCall.result.thresholds.asyncTimeout = 500
    /\ cfgCall.result.logLevel = "log"

(***************************************************************************)
(* C15 (as stated): every entry appended by logMetrics/logIssue is written *)
(* as exactly one line at the end of the file of the calendar day of the   *)
(* entry's own timestamp, so no file holds an entry stamped on another     *)
(* day.                                                                    *)
(***************************************************************************)
C15_LineInFileOfTimestampDay ==
    /\ [](\A d \in Days : \A i \in 1..Len(disk[d]) : IsoDate(disk[d][i].timestamp) = d)
    /\ [][Len(logs') = Len(logs) + 1 =>
            LET logEntry == logs'[Len(logs')]
            IN  disk' = [disk EXCEPT ![LogFileName(logEntry.timestamp)] =
                                        Append(@, JsonLine(logEntry))]]_vars

(***************************************************************************)
(* C15 (amended): a logMetrics/logIssue call appends its entry to memory   *)
(* and writes at most one line: either the write fails and no file         *)
(* changes, or the entry's line is appended at the end of the file of the  *)
(* calendar day of the clock at the write, a day at or after the day of    *)
(* the entry's timestamp, and no other file changes.  So a file never      *)
(* holds an entry stamped on a later day, and each file's timestamps are   *)
(* in nondecreasing order.                                                 *)
(***************************************************************************)
C15_LineInFileOfWriteDay ==
    /\ [](\A d \in Days : \A i \in 1..Len(disk[d]) :
            /\ IsoDate(disk[d][i].timestamp) <= d
            /\ \A j \in 1..i : disk[d][j].timestamp <= disk[d][i].timestamp)
    /\ [][Len(logs') = Len(logs) + 1 =>
            LET logEntry == logs'[Len(logs')]
            IN  /\ logEntry.timestamp = now
                /\ \/ disk' = disk
                   \/ disk' = [disk EXCEPT ![LogFileName(now')] =
                                              Append(@, JsonLine(logEntry))]]_vars

\* An entry stamped on day 0 stands in the file of day 1 after an entry
\* that was stamped and written on day 0.
C15_Witness ==
    /\ Len(disk[0]) = 1
    /\ Len(disk[1]) = 1
    /\ IsoDate(disk[1][1].timestamp) = 0
    /\ Len(logs) = 2

(***************************************************************************)
(* C16: whatever memory-leak, cleanup and async-bottleneck requests came   *)
(* before and whatever async workloads are in flight, the envelope of      *)
(* triggerMemoryLeak(count) reports the leakedObjectCount of that          *)
(* request's own generateMemoryLeaks(count): the keys its cache loop       *)
(* created plus count objects in each of the three lists, which is what    *)
(* the four stores hold when the request returns.                          *)
(***************************************************************************)
C16_MemoryLeakRequestIsAtomic ==
    [][ ( /\ memCalls'[1].op = "analyzeMemoryLeaks"
          /\ memCalls'[2].op = "generateMemoryLeaks"
          /\ <<memCalls, response, leakyCache>> # <<memCalls', response', leakyCache'>> ) =>
            LET count == memCalls'[2].count
                reported == response'.details.value.leakedObjectCount
            IN  /\ response'.details.kind = "value"
                /\ leakyCache' \in KeyDraws(count)
                /\ leakyArray' = Pushes(count)
                /\ closureLeak' = Pushes(count)
                /\ eventListenerLeaks' = Pushes(count)
                /\ reported = leakyCache' + 3 * Pushes(count)
                /\ response'.details.value.leakDetails = GetLeakStatistics(CurrentStores)'
      ]_vars

\* A memory-leak request of 1 answered with 4 after one of 251, while an
\* async-bottleneck workload is in flight.
C16_Witness ==
    /\ memCalls = <<MemCall("analyzeMemoryLeaks", 0), MemCall("generateMemoryLeaks", 1)>>
    /\ workload = "returned"
    /\ response.details.kind = "value"
    /\ response.details.value.leakedObjectCount = 4
    /\ \E r \in Requests : asyncReq[r].state = "pending" /\ asyncReq[r].completed > 0

(***************************************************************************)
(* C17: analyzeMemoryLeaks classifies by the total T of the four store     *)
(* sizes: 'high' iff T > 1000, 'medium' iff 500 < T <= 1000, 'low' iff     *)
(* T <= 500; potentialImpact and recommendedActions are those of that      *)
(* severity; and the call leaves the four stores as they were.             *)
(***************************************************************************)
StoredObjects == leakyCache + leakyArray + closureLeak + eventListenerLeaks

C17_AnalyzeClassifiesByTotal ==
    /\ [](memCalls[1].op = "analyzeMemoryLeaks" =>
            /\ memAnalytics.leakedObjectCount = StoredObjects
            /\ memAnalytics.severity \in {"low", "medium", "high"}
            /\ memAnalytics.severity = "high" <=> StoredObjects > 1000
            /\ memAnalytics.severity = "medium" <=> (500 < StoredObjects /\ StoredObjects <= 1000)
            /\ memAnalytics.severity = "low" <=> StoredObjects <= 500
            /\ memAnalytics.severity = "high" =>
                 /\ memAnalytics.potentialImpact =
                       "Severe memory consumption, potential application crash"
                 /\ memAnalytics.recommendedActions = "Immediate memory leak investigation"
            /\ memAnalytics.severity = "medium" =>
                 /\ memAnalytics.potentialImpact =
                       "Gradual memory growth, potential performance degradation"
                 /\ memAnalytics.recommendedActions = "Review memory allocation patterns"
            /\ memAnalytics.severity = "low" =>
                 /\ memAnalytics.potentialImpact =
                       "Minimal memory impact, within acceptable limits"
                 /\ memAnalytics.recommendedActions = "Continue monitoring memory usage")
    /\ [][ ( /\ memCalls'[1].op = "analyzeMemoryLeaks"
             /\ memCalls'[2] = memCalls[1]
             /\ memCalls[1].op # "generateMemoryLeaks" ) =>
               UNCHANGED <<leakyCache, leakyArray, closureLeak, eventListenerLeaks>> ]_vars

\* An analysis of exactly 1000 leaked objects is 'medium', and a second
\* analysis follows it.
C17_Witness ==
    /\ memCalls[1].op = "analyzeMemoryLeaks"
    /\ memCalls[2].op = "analyzeMemoryLeaks"
    /\ StoredObjects = 1000
    /\ memAnalytics.severity = "medium"

(***************************************************************************)
(* C18 (as stated): whatever came before, after generateMemoryLeaks(count) *)
(* the cache, the array, the closure list and the event-listener list each *)
(* hold exactly count elements, 4*count in all.                            *)
(***************************************************************************)
C18_ExactlyCountInEachStore ==
    memCalls[1].op = "generateMemoryLeaks" =>
        /\ leakyCache = memCalls[1].count
        /\ leakyArray = memCalls[1].count
        /\ closureLeak = memCalls[1].count
        /\ eventListenerLeaks = memCalls[1].count
        /\ StoredObjects = 4 * memCalls[1].count

(***************************************************************************)
(* C18 (amended): whatever came before, after generateMemoryLeaks(count)   *)
(* the array, the closure list and the event-listener list each hold       *)
(* exactly count elements, and the cache holds the distinct keys that the  *)
(* call drew: at most count, at least 1 when count >= 1, fewer than count  *)
(* when random keys coincided.  The total is between 3*count + 1 and       *)
(* 4*count for count >= 1, and 0 for count = 0.                            *)
(***************************************************************************)
C18_GenerateDoesNotAccumulate ==
    memCalls[1].op = "generateMemoryLeaks" =>
        LET count == memCalls[1].count
        IN  /\ leakyArray = count
            /\ closureLeak = count
            /\ eventListenerLeaks = count
            /\ leakyCache <= count
            /\ count >= 1 => leakyCache >= 1
            /\ StoredObjects <= 4 * count
            /\ count >= 1 => StoredObjects >= 3 * count + 1

\* generateMemoryLeaks(126) right after another generateMemoryLeaks, with one
\* key drawn twice: 125 cache entries, 126 in each list.
C18_Witness ==
    /\ memCalls[1] = MemCall("generateMemoryLeaks", 126)
    /\ memCalls[2].op = "generateMemoryLeaks"
    /\ memCalls[2].count = 251
    /\ leakyCache = 125
    /\ leakyArray = 126
    /\ StoredObjects = 503

(***************************************************************************)
(* C19: in MemoryLeakAnalyzer the number of leaked objects starts at 0,    *)
(* grows by count at each generateMemoryLeaks(count), returns to 0 at      *)
(* attemptMemoryCleanup and is not changed by detectLeaks; detectLeaks     *)
(* returns an issue whenever the number is above 500, and an issue it      *)
(* returns is critical iff the number is above 1000 and high otherwise.    *)
(***************************************************************************)
C19_LeakedObjectsAccumulate ==
    /\ [](leakOp.op = None => leakedObjects = 0)
    /\ [](leakOp.op = "detectLeaks" =>
            /\ leakedObjects > 500 => leakIssue # NullIssue
            /\ leakIssue # NullIssue =>
                 /\ leakIssue.type = "memory_leak"
                 /\ leakIssue.severity = CRITICAL <=> leakedObjects > 1000
                 /\ leakIssue.severity = HIGH <=> leakedObjects <= 1000)
    /\ [][ /\ ( /\ leakOp'.op = "generateMemoryLeaks"
                /\ <<leakOp, leakedObjects>> # <<leakOp', leakedObjects'>> ) =>
                  leakedObjects' = leakedObjects + leakOp'.count
           /\ leakOp'.op = "attemptMemoryCleanup" => leakedObjects' = 0
           /\ leakOp'.op = "detectLeaks" => leakedObjects' = leakedObjects ]_vars

\* After 500 and 501 objects without a cleanup between, detectLeaks at a
\* small heap returns a critical issue and the array still holds 1001.
C19_Witness ==
    /\ leakOp.op = "detectLeaks"
    /\ leakedObjects = 1001
    /\ leakIssue.severity = CRITICAL
    /\ leakIssue.metrics.processMemory = 0

(***************************************************************************)
(* C20: when a call of the wrapped method succeeds, the wrapper appends    *)
(* exactly one metric entry and then at most one issue entry; the issue is *)
(* appended iff executionTime > executionTimeThreshold (1000 when the      *)
(* option is absent) or memoryUsed > memoryThreshold (100 MB when absent); *)
(* its severity is critical iff executionTime > 2 * executionTimeThreshold *)
(* and high otherwise; and the wrapper's promise resolves to the original  *)
(* method's result.                                                        *)
(***************************************************************************)
C20_SuccessLogsMetricThenIssue ==
    [][ \A c \in Calls :
          (trackPc[c] = "awaiting" /\ trackPc'[c] = "resolved") =>
             LET n == Len(trackLogs)
                 metric == trackLogs'[n + 1]
                 executionTime == metric.data.latency
                 memoryUsed == metric.data.processMemory
                 timeLimit == IF trackOptions.executionTimeThreshold = NoNumber
                              THEN 1000 ELSE trackOptions.executionTimeThreshold
                 memoryLimit == IF trackOptions.memoryThreshold = NoNumber
                                THEN 100 * 1024 * 1024 ELSE trackOptions.memoryThreshold
                 exceeded == executionTime > timeLimit \/ memoryUsed > memoryLimit
             IN  /\ IsPrefix(trackLogs, trackLogs')
                 /\ Len(trackLogs') = IF exceeded THEN n + 2 ELSE n + 1
                 /\ metric.type = "metric"
                 /\ metric.data.failedRequests = 0
                 /\ exceeded =>
                      /\ trackLogs'[n + 2].type = "issue"
                      /\ trackLogs'[n + 2].data.type = "cpu_bottleneck"
                      /\ trackLogs'[n + 2].data.metrics = metric.data
                      /\ trackLogs'[n + 2].data.severity =
                            IF executionTime > 2 * timeLimit THEN CRITICAL ELSE HIGH
                 /\ origOutcome'[c].state = "resolved"
                 /\ trackResult'[c] = origOutcome'[c]
      ]_vars

\* A successful call whose memory alone went over the default threshold: a
\* metric entry, then a high issue.
C20_Witness ==
    /\ \E c \in Calls : trackPc[c] = "resolved" /\ trackResult[c].state = "resolved"
    /\ trackOptions = NoOptions
    /\ Len(trackLogs) = 2
    /\ trackLogs[1].type = "metric"
    /\ trackLogs[1].data.latency = 0
    /\ trackLogs[1].data.processMemory > 100 * 1024 * 1024
    /\ trackLogs[2].type = "issue"
    /\ trackLogs[2].data.severity = HIGH

(***************************************************************************)
(* C21: each profileSystem call appends, in this order, exactly one metric *)
(* entry, then a 'cpu_bottleneck' issue iff cpu.currentLoad is above the   *)
(* cpuLoad threshold, then a 'memory_leak' issue iff                       *)
(* memory.usagePercentage is above the memoryUsage threshold; a threshold  *)
(* is the value of the key in config.thresholds when the key is there and  *)
(* the default (80, 90) otherwise, and nothing is above an undefined one;  *)
(* an issue is critical iff its measured value is above 95, else high.     *)
(***************************************************************************)
C21_ProfileLogsMetricThenIssues ==
    [][ ( /\ profiled'.called
          /\ Len(logs') > Len(logs) ) =>
            LET n == Len(logs)
                added == SubSeq(logs', n + 1, Len(logs'))
                currentLoad == profiled'.metrics.currentLoad
                usagePercentage == profiled'.metrics.usagePercentage
                configured == detector.thresholds
                cpuLimit == IF "cpuLoad" \in DOMAIN configured
                            THEN configured.cpuLoad ELSE 80
                memoryLimit == IF "memoryUsage" \in DOMAIN configured
                               THEN configured.memoryUsage ELSE 90
                cpuIssue == cpuLimit # NoNumber /\ currentLoad > cpuLimit
                memoryIssue == memoryLimit # NoNumber /\ usagePercentage > memoryLimit
                expected == 1 + (IF cpuIssue THEN 1 ELSE 0) + (IF memoryIssue THEN 1 ELSE 0)
            IN  /\ IsPrefix(logs, logs')
                /\ Len(added) = expected
                /\ added[1].type = "metric"
                /\ added[1].data = profiled'.metrics
                /\ cpuIssue =>
                     /\ added[2].type = "issue"
                     /\ added[2].data.type = "cpu_bottleneck"
                     /\ added[2].data.severity = IF currentLoad > 95 THEN CRITICAL ELSE HIGH
                /\ memoryIssue =>
                     /\ added[expected].type = "issue"
                     /\ added[expected].data.type = "memory_leak"
                     /\ added[expected].data.severity =
                           IF usagePercentage > 95 THEN CRITICAL ELSE HIGH
      ]_vars

\* With the default thresholds, a load of 95 and a memory usage of 96: the
\* metric entry, a high cpu issue, a critical memory issue.
C21_Witness ==
    /\ detector.constructed
    /\ DOMAIN detector.thresholds = {}
    /\ profiled.called
    /\ Len(logs) = 3
    /\ logs[1].type = "metric"
    /\ logs[1].data.currentLoad = 95
    /\ logs[2].data.type = "cpu_bottleneck"
    /\ logs[2].data.severity = HIGH
    /\ logs[3].data.type = "memory_leak"
    /\ logs[3].data.severity = CRITICAL

(***************************************************************************)
(* C22: AsyncBottleneckAnalyzer.createPromiseChainBottleneck arms its ten  *)
(* timers strictly one after another (the timer of step i + 1 is armed     *)
(* only when the timer of step i has fired, and at most one is pending),   *)
(* resolves to 0 + 1 + ... + 9 = 45 after at least 4500 ms, and every call *)
(* appends exactly one issue, of type 'async_bottleneck' and severity      *)
(* critical, in the step in which it resolves and none before.             *)
(***************************************************************************)
C22_AnalyzerChainOneByOne ==
    /\ [](/\ Cardinality(achain.armed) <= 1
          /\ \A i \in achain.armed \cup achain.fired :
                \A j \in 0..(i - 1) : j \in achain.fired
          /\ achain.state = "waiting" => Cardinality(achain.armed) = 1
          /\ achain.state = "resolved" =>
                /\ achain.result = 45
                /\ achain.fired = 0..9
                /\ achain.armed = {}
                /\ achain.elapsed >= 4500)
    /\ [][ /\ (achain.state = "waiting" /\ achain'.state = "resolved") =>
                /\ Len(logs') = Len(logs) + 1
                /\ IsPrefix(logs, logs')
                /\ Last(logs').type = "issue"
                /\ Last(logs').data.type = "async_bottleneck"
                /\ Last(logs').data.severity = CRITICAL
           /\ achain'.state = "waiting" => logs' = logs ]_vars

\* A second call has resolved: two critical issues, the second of a chain
\* whose timers were late.
C22_Witness ==
    /\ achain.state = "resolved"
    /\ achain.result = 45
    /\ achain.elapsed > 4500
    /\ Len(logs) = 2
    /\ logs[1].data.metrics.latency = 4500
    /\ logs[2].data.metrics.latency = achain.elapsed

\* the issue entries among the entries the last detection call appended
C23_IssuesAppended ==
    { i \in 1..Len(detection.appended) : detection.appended[i].type = "issue" }

(***************************************************************************)
(* C23 (as stated): a detection call of CpuPerformanceAnalyzer,            *)
(* MemoryLeakAnalyzer or AsyncBottleneckAnalyzer returns a non-null issue  *)
(* if and only if it appended at least one issue entry to the logger; a    *)
(* null result means that the call logged no issue.                        *)
(***************************************************************************)
C23_NonNullIffIssueLogged ==
    detection.analyzer # None =>
        (detection.issue # NullIssue <=> C23_IssuesAppended # {})

\* the severities of the issue entries of log l
C24_Severities(l) ==
    { l[i].data.severity : i \in { j \in 1..Len(l) : l[j].type = "issue" } }

(***************************************************************************)
(* C24: every issue entry that PerformanceDetectorService, the             *)
(* PerformanceTrack wrapper, CpuPerformanceAnalyzer, MemoryLeakAnalyzer or *)
(* AsyncBottleneckAnalyzer appends to a logger has severity high or        *)
(* critical, so no logged issue has severity low or medium; and the        *)
(* severity of the controller's envelope is never 'critical'.              *)
(***************************************************************************)
C24_LoggedSeverityHighOrCritical ==
    /\ C24_Severities(logs) \subseteq {HIGH, CRITICAL}
    /\ C24_Severities(trackLogs) \subseteq {HIGH, CRITICAL}
    /\ response.severity # CRITICAL

\* Both severities have been logged to the shared logger, the wrapper has
\* logged an issue and the controller has answered with its highest severity.
C24_Witness ==
    /\ C24_Severities(logs) = {HIGH, CRITICAL}
    /\ C24_Severities(trackLogs) # {}
    /\ response.severity = "high"
    /\ \E i \in 1..Len(logs) : logs[i].type = "issue" /\ logs[i].data.id[1] = "cpu-intensive"

\* a step of the named logger operation (each append changes the list)
C25_Step(op) == lastOp' = op /\ (logs' # logs \/ lastOp # op)

(***************************************************************************)
(* C25: in every reachable state of a PerformanceLogger the counts of      *)
(* analyzeLogs satisfy totalLogs = metrics + issues (no entry has type     *)
(* 'log') and criticalIssues <= issues; each logMetrics raises totalLogs   *)
(* and metrics by 1 and leaves issues and criticalIssues unchanged, each   *)
(* logIssue raises totalLogs and issues by 1 and criticalIssues by 1 if    *)
(* and only if the issue's severity is critical, clearLogs sets all four   *)
(* counts to 0, and analyzeLogs returns these counts.                      *)
(***************************************************************************)
C25_AnalysisCounts ==
    /\ [](/\ Analysis(logs).totalLogs = Analysis(logs).metrics + Analysis(logs).issues
          /\ Analysis(logs).criticalIssues <= Analysis(logs).issues
          /\ \A i \in 1..Len(logs) : logs[i].type \in {"metric", "issue"}
          /\ lastOp = "analyzeLogs" => retAnalysis = Analysis(logs))
    /\ [][ LET before == Analysis(logs)
               after == Analysis(logs')
           IN  /\ C25_Step("logMetrics") =>
                     /\ after.totalLogs = before.totalLogs + 1
                     /\ after.metrics = before.metrics + 1
                     /\ after.issues = before.issues
                     /\ after.criticalIssues = before.criticalIssues
               /\ C25_Step("logIssue") =>
                     /\ after.totalLogs = before.totalLogs + 1
                     /\ after.issues = before.issues + 1
                     /\ after.metrics = before.metrics
                     /\ after.criticalIssues = before.criticalIssues +
                            (IF Last(logs').data.severity = CRITICAL THEN 1 ELSE 0)
               /\ C25_Step("clearLogs") => after = NoAnalysis ]_vars

\* analyzeLogs has just counted a metric, an issue that is not critical and
\* a critical one.
C25_Witness ==
    /\ lastOp = "analyzeLogs"
    /\ retAnalysis = [totalLogs |-> 3, metrics |-> 1, issues |-> 2, criticalIssues |-> 1]

====
